---- MODULE Spec2Model ----
(***************************************************************************)
(* The type-relation engine of src/src/ty_compare.rs: resolve, the global  *)
(* unification table, Canonicalize and Subtype walk modes, pre_match and   *)
(* splice_ddd.                                                             *)
(*                                                                         *)
(* A type (Ty) is a record [form, nm, id, params, parts]:                  *)
(*   form   the constructor ("vr" for a VariableReference)                 *)
(*   nm     the name of a variable reference                               *)
(*   id     the gensym'd name of an <underdetermined> node (a number)      *)
(*   params the names a forall_type / mu_type binds, or the drivers of a   *)
(*          dotdotdot_type                                                 *)
(*   parts  the sub-terms, in order                                        *)
(* An environment (Assoc<Name, Ty>) is a function from names to types, a   *)
(* closure (Clo<Ty>) is [it, env], the unification table is a function     *)
(* from placeholder ids to closures.                                       *)
(***************************************************************************)
EXTENDS Integers, Sequences, FiniteSets, TLC

VARIABLES
    unification,   \* the thread-local unification table: id -> closure
    gensym,        \* how many placeholder names Name::gensym has handed out
    last,          \* the latest call and its outcome
    merged,        \* the pairs <<l, r>> of unbound placeholders pre_match merged
    calls,         \* how many calls the session has made
    order,         \* two sessions given the same comparisons in two orders
    checked,       \* <<sub, sup, env>> of the latest check of the tests' types
    returned       \* the arguments, the store and the result of the latest
                   \* call of one of the engine's functions on its own

vars == <<unification, gensym, last, merged, calls, order, checked, returned>>

(* ------------------------------ bounds -------------------------------- *)
\* placeholders one session may generate
MaxIds == 3
\* operations one session performs
MaxCalls == 2
\* comparisons given to two sessions in two orders, and their placeholders
MaxComps == 2
OrderIds == 2
\* components of the concrete tuples compared with a splice
MaxArity == 2

(* ------------------------------ terms --------------------------------- *)
Node(f, ps, ts) == [form |-> f, nm |-> "", id |-> 0, params |-> ps, parts |-> ts]
VariableReference(n) == [form |-> "vr", nm |-> n, id |-> 0, params |-> <<>>, parts |-> <<>>]
Undet(i) == [form |-> "underdetermined", nm |-> "", id |-> i, params |-> <<>>, parts |-> <<>>]
IntTy == Node("Int", <<>>, <<>>)
FloatTy == Node("Float", <<>>, <<>>)
NatTy == Node("Nat", <<>>, <<>>)
\* a function type: the parameters, then the return type
Fn(ps, ret) == Node("fn", <<>>, Append(ps, ret))
Tuple(cs) == Node("tuple", <<>>, cs)
TypeApply(rator, args) == Node("type_apply", <<>>, <<rator>> \o args)
Forall(ps, body) == Node("forall_type", ps, <<body>>)
Mu(p, body) == Node("mu_type", <<p>>, <<body>>)
DotDotDot(drivers, body) == Node("dotdotdot_type", drivers, <<body>>)

IsVr(t) == t.form = "vr"
IsUndet(t) == t.form = "underdetermined"
Rator(t) == t.parts[1]
ArgTerms(t) == Tail(t.parts)

SeqRange(s) == {s[i] : i \in 1..Len(s)}
Min(a, b) == IF a < b THEN a ELSE b

\* placeholder ids a term mentions, at any depth
RECURSIVE TermIds(_)
TermIds(t) ==
    IF IsUndet(t) THEN {t.id}
    ELSE UNION {TermIds(t.parts[i]) : i \in 1..Len(t.parts)}

(* --------------------------- environments ----------------------------- *)
MtEnv == [n \in {} |-> IntTy]
EnvSet(env, n, t) == [m \in DOMAIN env \cup {n} |-> IF m = n THEN t ELSE env[m]]
EnvMerge(env, over) ==
    [n \in DOMAIN env \cup DOMAIN over |-> IF n \in DOMAIN over THEN over[n] ELSE env[n]]
EnvIds(env) == UNION {TermIds(env[n]) : n \in DOMAIN env}

Clo(t, env) == [it |-> t, env |-> env]

\* the outcomes of a call that does not return: unbounded recursion, panic!
Overflow == Clo(Node("<stack overflow>", <<>>, <<>>), MtEnv)
Panic == Clo(Node("<panic>", <<>>, <<>>), MtEnv)
NoneClo == Clo(Node("<None>", <<>>, <<>>), MtEnv)
Aborted(c) == c = Overflow \/ c = Panic

(* --------------------------- the store -------------------------------- *)
MtUnif == [i \in {} |-> NoneClo]
\* a variant of the insertion in which the table keeps its latest entry only
Insert_latest(u, k, c) == [i \in {k} |-> c]
Insert(u, k, c) == [i \in DOMAIN u \cup {k} |-> IF i = k THEN c ELSE u[i]]

(* ---------------------------- substitute ------------------------------ *)
\* alpha::substitute: the arguments replace the parameters' free references
RECURSIVE substitute(_, _)
substitute(t, actual) ==
    IF IsVr(t) THEN (IF t.nm \in DOMAIN actual THEN actual[t.nm] ELSE t)
    ELSE IF IsUndet(t) THEN t
    ELSE LET shadowed == IF t.form \in {"forall_type", "mu_type"}
                         THEN SeqRange(t.params) ELSE {}
             inner == [n \in DOMAIN actual \ shadowed |-> actual[n]]
         IN [t EXCEPT !.parts = [i \in 1..Len(t.parts) |-> substitute(t.parts[i], inner)]]

(* ----------------------------- resolve -------------------------------- *)
\* a variant of the round that follows a variable bound to itself like any
\* other
ResolveStep_unprotected(c, unif, rator) ==
    LET t == c.it
        env == c.env
    IN  IF IsVr(t) THEN
            IF t.nm \notin DOMAIN env THEN NoneClo
            ELSE Clo(env[t.nm], env)
        ELSE IF t.form = "type_apply" THEN
            IF Aborted(rator) THEN rator
            ELSE IF IsVr(rator.it) THEN
                LET res == TypeApply(rator.it, ArgTerms(t))
                IN IF res # t THEN Clo(res, rator.env) ELSE NoneClo
            ELSE IF rator.it.form # "forall_type" THEN NoneClo
            ELSE IF Len(rator.it.params) # Len(ArgTerms(t)) THEN Panic
            ELSE LET ps == rator.it.params
                     actual_params ==
                         [n \in SeqRange(ps) |->
                             ArgTerms(t)[CHOOSE i \in 1..Len(ps) :
                                 ps[i] = n /\ \A j \in (i+1)..Len(ps) : ps[j] # n]]
                 IN Clo(substitute(rator.it.parts[1], actual_params), rator.env)
        ELSE IF IsUndet(t) THEN
            IF t.id \in DOMAIN unif THEN unif[t.id] ELSE NoneClo
        ELSE NoneClo

\* a variant of the round that pairs parameters with arguments as far as
\* both go, without comparing their counts
ResolveStep_zipped(c, unif, rator) ==
    LET t == c.it
        env == c.env
    IN  IF IsVr(t) THEN
            IF t.nm \notin DOMAIN env THEN NoneClo
            ELSE IF env[t.nm] = t THEN NoneClo
            ELSE Clo(env[t.nm], env)
        ELSE IF t.form = "type_apply" THEN
            IF Aborted(rator) THEN rator
            ELSE IF IsVr(rator.it) THEN
                LET res == TypeApply(rator.it, ArgTerms(t))
                IN IF res # t THEN Clo(res, rator.env) ELSE NoneClo
            ELSE IF rator.it.form # "forall_type" THEN NoneClo
            ELSE LET ps == rator.it.params
                     both == IF Len(ps) < Len(ArgTerms(t)) THEN Len(ps)
                             ELSE Len(ArgTerms(t))
                     actual_params ==
                         [n \in {ps[i] : i \in 1..both} |->
                             ArgTerms(t)[CHOOSE i \in 1..both :
                                 ps[i] = n /\ \A j \in (i+1)..both : ps[j] # n]]
                 IN Clo(substitute(rator.it.parts[1], actual_params), rator.env)
        ELSE IF IsUndet(t) THEN
            IF t.id \in DOMAIN unif THEN unif[t.id] ELSE NoneClo
        ELSE NoneClo

\* a variant of the round that rejects an application of something that is
\* neither a name nor a forall_type
ResolveStep_strict(c, unif, rator) ==
    LET t == c.it
        env == c.env
    IN  IF IsVr(t) THEN
            IF t.nm \notin DOMAIN env THEN NoneClo
            ELSE IF env[t.nm] = t THEN NoneClo
            ELSE Clo(env[t.nm], env)
        ELSE IF t.form = "type_apply" THEN
            IF Aborted(rator) THEN rator
            ELSE IF IsVr(rator.it) THEN
                LET res == TypeApply(rator.it, ArgTerms(t))
                IN IF res # t THEN Clo(res, rator.env) ELSE NoneClo
            ELSE IF rator.it.form # "forall_type" THEN Panic
            ELSE IF Len(rator.it.params) # Len(ArgTerms(t)) THEN Panic
            ELSE LET ps == rator.it.params
                     actual_params ==
                         [n \in SeqRange(ps) |->
                             ArgTerms(t)[CHOOSE i \in 1..Len(ps) :
                                 ps[i] = n /\ \A j \in (i+1)..Len(ps) : ps[j] # n]]
                 IN Clo(substitute(rator.it.parts[1], actual_params), rator.env)
        ELSE IF IsUndet(t) THEN
            IF t.id \in DOMAIN unif THEN unif[t.id] ELSE NoneClo
        ELSE NoneClo

\* One round of resolve's match: the closure to continue with, NoneClo when
\* no rule rewrites, or Panic. `rator` is the resolved operator of a
\* type_apply (itself the result of a nested resolve).
ResolveStep(c, unif, rator) ==
    LET t == c.it
        env == c.env
    IN  IF IsVr(t) THEN
            IF t.nm \notin DOMAIN env THEN NoneClo
            ELSE IF env[t.nm] = t THEN NoneClo
            ELSE Clo(env[t.nm], env)
        ELSE IF t.form = "type_apply" THEN
            IF Aborted(rator) THEN rator
            ELSE IF IsVr(rator.it) THEN
                LET res == TypeApply(rator.it, ArgTerms(t))
                IN IF res # t THEN Clo(res, rator.env) ELSE NoneClo
            ELSE IF rator.it.form # "forall_type" THEN NoneClo
            ELSE IF Len(rator.it.params) # Len(ArgTerms(t)) THEN Panic
            ELSE LET ps == rator.it.params
                     actual_params ==
                         [n \in SeqRange(ps) |->
                             ArgTerms(t)[CHOOSE i \in 1..Len(ps) :
                                 ps[i] = n /\ \A j \in (i+1)..Len(ps) : ps[j] # n]]
                 IN Clo(substitute(rator.it.parts[1], actual_params), rator.env)
        ELSE IF IsUndet(t) THEN
            IF t.id \in DOMAIN unif THEN unif[t.id] ELSE NoneClo
        ELSE NoneClo

\* resolve, with the closures on the call stack: meeting one of them again
\* is a recursion that never returns
RECURSIVE resolve_from(_, _, _)

\* a variant of the last line of resolve that stops after one rewrite
ResolveOn_once(c, resolved, unif, stack) ==
    IF resolved = NoneClo THEN c
    ELSE resolved

\* resolved.map(|clo| resolve(clo, unif)).unwrap_or(Clo { it: t, env: env })
ResolveOn(c, resolved, unif, stack) ==
    IF resolved = NoneClo THEN c
    ELSE IF Aborted(resolved) THEN resolved
    ELSE resolve_from(resolved, unif, stack)

resolve_from(c, unif, stack) ==
    IF c \in stack THEN Overflow
    ELSE ResolveOn(c,
            ResolveStep(c, unif,
                IF c.it.form = "type_apply"
                THEN resolve_from(Clo(Rator(c.it), c.env), unif, stack \cup {c})
                ELSE NoneClo),
            unif, stack \cup {c})

resolve(c, unif) == resolve_from(c, unif, {})

(* --------------------------- Canonicalize ----------------------------- *)
\* Results of a positive walk: Ok(ty), Err(UnboundName(id)), or no return
CanonOk(t) == [tag |-> "Ok", ty |-> t, id |-> 0]
CanonUnbound(i) == [tag |-> "UnboundName", ty |-> Undet(i), id |-> i]
CanonOverflow == [tag |-> "overflow", ty |-> Overflow.it, id |-> 0]

\* Canonicalize::underspecified: simply protect the name
CanonUnderspecified(name) == VariableReference(name)

\* the first result of a sequence that is not Ok, or 0
FirstFailure(rs) ==
    IF \A i \in 1..Len(rs) : rs[i].tag = "Ok" THEN 0
    ELSE CHOOSE i \in 1..Len(rs) :
            rs[i].tag # "Ok" /\ \A j \in 1..(i-1) : rs[j].tag = "Ok"

\* the environment under a binding form: each bound name is underspecified
RECURSIVE BindParams(_, _, _)
BindParams(env, ps, i) ==
    IF i > Len(ps) THEN env
    ELSE BindParams(EnvSet(env, ps[i], CanonUnderspecified(ps[i])), ps, i + 1)

\* walk::<Canonicalize>, with the (term, environment) pairs on the call stack
RECURSIVE canonicalize_from(_, _, _, _)

\* Canonicalize::walk_var
Canonicalize_walk_var(t, env, unif, stack) ==
    IF t.nm \notin DOMAIN env THEN CanonOk(t)
    ELSE IF env[t.nm] = t THEN CanonOk(t)
    ELSE canonicalize_from(env[t.nm], env, unif, stack)

\* a variant of the rule that leaves a placeholder without an entry as it is
underdetermined_form_lenient(t, unif, stack) ==
    IF t.id \notin DOMAIN unif THEN CanonOk(t)
    ELSE canonicalize_from(unif[t.id].it, unif[t.id].env, unif, stack)

\* the positive type_compare rule of underdetermined_form
underdetermined_form(t, unif, stack) ==
    IF t.id \notin DOMAIN unif THEN CanonUnbound(t.id)
    ELSE canonicalize_from(unif[t.id].it, unif[t.id].env, unif, stack)

\* the positive rule of the other forms: walked part by part, the names a
\* binding form binds being underspecified, and rebuilt
CanonRebuild(t, rs) ==
    IF FirstFailure(rs) # 0 THEN rs[FirstFailure(rs)]
    ELSE CanonOk([t EXCEPT !.parts = [i \in 1..Len(t.parts) |-> rs[i].ty]])

CanonLiterally(t, env, unif, stack) ==
    CanonRebuild(t,
        [i \in 1..Len(t.parts) |->
            canonicalize_from(t.parts[i],
                IF t.form \in {"forall_type", "mu_type"}
                THEN BindParams(env, t.params, 1) ELSE env,
                unif, stack)])

canonicalize_from(t, env, unif, stack) ==
    IF Clo(t, env) \in stack THEN CanonOverflow
    ELSE IF IsVr(t) THEN Canonicalize_walk_var(t, env, unif, stack \cup {Clo(t, env)})
    ELSE IF IsUndet(t) THEN underdetermined_form(t, unif, stack \cup {Clo(t, env)})
    ELSE CanonLiterally(t, env, unif, stack \cup {Clo(t, env)})

\* canonicalize(t, env), reading the store
canonicalize(t, env, unif) == canonicalize_from(t, env, unif, {})

(* ----------------------------- Subtype -------------------------------- *)
\* a variant of underspecified that keeps one placeholder per hint
underspecified_cached(g) == Undet(1)

\* Subtype::underspecified: a node of underdetermined_form with a gensym'd id
underspecified(g) == Undet(g + 1)

\* a variant of the match in which two different unbound placeholders pass
\* as equal, unrecorded
Determine_no_merge(lhs, rhs, unif) ==
        IF Aborted(lhs)
        THEN [tag |-> lhs.it.form, unif |-> unif, out |-> <<>>, ins |-> <<>>]
        ELSE IF Aborted(rhs)
        THEN [tag |-> rhs.it.form, unif |-> unif, out |-> <<>>, ins |-> <<>>]
        ELSE IF IsUndet(lhs.it) /\ IsUndet(rhs.it) THEN
            [tag |-> "None", unif |-> unif, out |-> <<>>, ins |-> <<>>]
        ELSE IF IsUndet(lhs.it) THEN
            [tag |-> "None", unif |-> Insert(unif, lhs.it.id, rhs),
             out |-> <<>>, ins |-> <<lhs.it.id>>]
        ELSE IF IsUndet(rhs.it) THEN
            [tag |-> "None", unif |-> Insert(unif, rhs.it.id, lhs),
             out |-> <<>>, ins |-> <<rhs.it.id>>]
        ELSE [tag |-> "Some", unif |-> unif, out |-> <<lhs, rhs>>, ins |-> <<>>]

\* a variant of the match without the arm for one placeholder on both sides
Determine_no_identity(lhs, rhs, unif) ==
        IF Aborted(lhs)
        THEN [tag |-> lhs.it.form, unif |-> unif, out |-> <<>>, ins |-> <<>>]
        ELSE IF Aborted(rhs)
        THEN [tag |-> rhs.it.form, unif |-> unif, out |-> <<>>, ins |-> <<>>]
        ELSE IF IsUndet(lhs.it) THEN
            [tag |-> "None", unif |-> Insert(unif, lhs.it.id, rhs),
             out |-> <<>>, ins |-> <<lhs.it.id>>]
        ELSE IF IsUndet(rhs.it) THEN
            [tag |-> "None", unif |-> Insert(unif, rhs.it.id, lhs),
             out |-> <<>>, ins |-> <<rhs.it.id>>]
        ELSE [tag |-> "Some", unif |-> unif, out |-> <<lhs, rhs>>, ins |-> <<>>]

\* a variant of the match without the arm for a placeholder on the right
Determine_left_only(lhs, rhs, unif) ==
        IF Aborted(lhs)
        THEN [tag |-> lhs.it.form, unif |-> unif, out |-> <<>>, ins |-> <<>>]
        ELSE IF Aborted(rhs)
        THEN [tag |-> rhs.it.form, unif |-> unif, out |-> <<>>, ins |-> <<>>]
        ELSE IF IsUndet(lhs.it) /\ IsUndet(rhs.it) /\ lhs.it.id = rhs.it.id THEN
            [tag |-> "None", unif |-> unif, out |-> <<>>, ins |-> <<>>]
        ELSE IF IsUndet(lhs.it) THEN
            [tag |-> "None", unif |-> Insert(unif, lhs.it.id, rhs),
             out |-> <<>>, ins |-> <<lhs.it.id>>]
        ELSE [tag |-> "Some", unif |-> unif, out |-> <<lhs, rhs>>, ins |-> <<>>]

\* the match of pre_match on the two resolved sides: [tag, unif, out, ins]
\*   tag  "None" (definitionally equal / determined), "Some" (compare out),
\*        or the abort of a resolve
\*   ins  the ids inserted into the store, in order
Determine(lhs, rhs, unif) ==
        IF Aborted(lhs)
        THEN [tag |-> lhs.it.form, unif |-> unif, out |-> <<>>, ins |-> <<>>]
        ELSE IF Aborted(rhs)
        THEN [tag |-> rhs.it.form, unif |-> unif, out |-> <<>>, ins |-> <<>>]
        ELSE IF IsUndet(lhs.it) /\ IsUndet(rhs.it) /\ lhs.it.id = rhs.it.id THEN
            [tag |-> "None", unif |-> unif, out |-> <<>>, ins |-> <<>>]
        ELSE IF IsUndet(lhs.it) THEN
            [tag |-> "None", unif |-> Insert(unif, lhs.it.id, rhs),
             out |-> <<>>, ins |-> <<lhs.it.id>>]
        ELSE IF IsUndet(rhs.it) THEN
            [tag |-> "None", unif |-> Insert(unif, rhs.it.id, lhs),
             out |-> <<>>, ins |-> <<rhs.it.id>>]
        ELSE [tag |-> "Some", unif |-> unif, out |-> <<lhs, rhs>>, ins |-> <<>>]

\* a variant of pre_match in which the two sides are matched as given,
\* without resolving them
pre_match_unresolved(lhs_ty, rhs_ty, env, unif) ==
    Determine(Clo(lhs_ty, env), Clo(rhs_ty, env), unif)

\* Subtype::pre_match(lhs_ty, rhs_ty, env) on the store `unif`
pre_match(lhs_ty, rhs_ty, env, unif) ==
    Determine(resolve(Clo(lhs_ty, env), unif), resolve(Clo(rhs_ty, env), unif), unif)

(* ---------------------------- splice_ddd ------------------------------ *)
\* The loop over the resolved drivers <<name, ty>>: tuples must have
\* expected_len components, underdetermined drivers are forced to be tuples
\* of expected_len fresh placeholders. acc is [tag, unif, gensym, envs, tys,
\* ins, expected_len], ins being the ids inserted into the store, in order;
\* a LengthMismatch carries the driver's components (tys) and expected_len.
RECURSIVE splice_drivers(_, _, _, _, _)

\* a variant of the loop that gives an underdetermined driver its fresh
\* components without recording the tuple in the store
splice_drivers_unrecorded(drivers, i, expected_len, env, acc) ==
    IF i > Len(drivers) THEN acc
    ELSE LET name == drivers[i][1]
             driver == drivers[i][2]
         IN  IF driver.form = "tuple" THEN
                 IF Len(driver.parts) # expected_len
                 THEN [acc EXCEPT !.tag = "LengthMismatch", !.envs = <<>>,
                                  !.tys = driver.parts]
                 ELSE splice_drivers(drivers, i + 1, expected_len, env,
                        [acc EXCEPT !.envs = [p \in 1..expected_len |->
                                        EnvSet(acc.envs[p], name, driver.parts[p])]])
             ELSE IF IsUndet(driver) THEN
                 LET undet_components ==
                         [p \in 1..expected_len |-> underspecified(acc.gensym + p - 1)]
                 IN splice_drivers(drivers, i + 1, expected_len, env,
                        [acc EXCEPT !.gensym = @ + expected_len,
                                    !.envs = [p \in 1..expected_len |->
                                        EnvSet(acc.envs[p], name, undet_components[p])]])
             ELSE [acc EXCEPT !.tag = "UnableToDestructure", !.envs = <<>>,
                              !.tys = <<driver>>]

\* a variant of the loop that accepts a tuple of at least expected_len
\* components
splice_drivers_at_least(drivers, i, expected_len, env, acc) ==
    IF i > Len(drivers) THEN acc
    ELSE LET name == drivers[i][1]
             driver == drivers[i][2]
         IN  IF driver.form = "tuple" THEN
                 IF Len(driver.parts) < expected_len
                 THEN [acc EXCEPT !.tag = "LengthMismatch", !.envs = <<>>,
                                  !.tys = driver.parts]
                 ELSE splice_drivers(drivers, i + 1, expected_len, env,
                        [acc EXCEPT !.envs = [p \in 1..expected_len |->
                                        EnvSet(acc.envs[p], name, driver.parts[p])]])
             ELSE IF IsUndet(driver) THEN
                 LET undet_components ==
                         [p \in 1..expected_len |-> underspecified(acc.gensym + p - 1)]
                 IN splice_drivers(drivers, i + 1, expected_len, env,
                        [acc EXCEPT !.gensym = @ + expected_len,
                                    !.ins = Append(@, driver.id),
                                    !.unif = Insert(@, driver.id,
                                                Clo(Tuple(undet_components), env)),
                                    !.envs = [p \in 1..expected_len |->
                                        EnvSet(acc.envs[p], name, undet_components[p])]])
             ELSE [acc EXCEPT !.tag = "UnableToDestructure", !.envs = <<>>,
                              !.tys = <<driver>>]

\* a variant of the loop that gives every position the first component of a
\* tuple driver
splice_drivers_first(drivers, i, expected_len, env, acc) ==
    IF i > Len(drivers) THEN acc
    ELSE LET name == drivers[i][1]
             driver == drivers[i][2]
         IN  IF driver.form = "tuple" THEN
                 IF Len(driver.parts) # expected_len
                 THEN [acc EXCEPT !.tag = "LengthMismatch", !.envs = <<>>,
                                  !.tys = driver.parts]
                 ELSE splice_drivers(drivers, i + 1, expected_len, env,
                        [acc EXCEPT !.envs = [p \in 1..expected_len |->
                                        EnvSet(acc.envs[p], name, driver.parts[1])]])
             ELSE IF IsUndet(driver) THEN
                 LET undet_components ==
                         [p \in 1..expected_len |-> underspecified(acc.gensym + p - 1)]
                 IN splice_drivers(drivers, i + 1, expected_len, env,
                        [acc EXCEPT !.gensym = @ + expected_len,
                                    !.ins = Append(@, driver.id),
                                    !.unif = Insert(@, driver.id,
                                                Clo(Tuple(undet_components), env)),
                                    !.envs = [p \in 1..expected_len |->
                                        EnvSet(acc.envs[p], name, undet_components[p])]])
             ELSE [acc EXCEPT !.tag = "UnableToDestructure", !.envs = <<>>,
                              !.tys = <<driver>>]

\* a variant of the loop that passes over a driver that is neither a tuple
\* nor underdetermined
splice_drivers_skipping(drivers, i, expected_len, env, acc) ==
    IF i > Len(drivers) THEN acc
    ELSE LET name == drivers[i][1]
             driver == drivers[i][2]
         IN  IF driver.form = "tuple" THEN
                 IF Len(driver.parts) # expected_len
                 THEN [acc EXCEPT !.tag = "LengthMismatch", !.envs = <<>>,
                                  !.tys = driver.parts]
                 ELSE splice_drivers(drivers, i + 1, expected_len, env,
                        [acc EXCEPT !.envs = [p \in 1..expected_len |->
                                        EnvSet(acc.envs[p], name, driver.parts[p])]])
             ELSE IF IsUndet(driver) THEN
                 LET undet_components ==
                         [p \in 1..expected_len |-> underspecified(acc.gensym + p - 1)]
                 IN splice_drivers(drivers, i + 1, expected_len, env,
                        [acc EXCEPT !.gensym = @ + expected_len,
                                    !.ins = Append(@, driver.id),
                                    !.unif = Insert(@, driver.id,
                                                Clo(Tuple(undet_components), env)),
                                    !.envs = [p \in 1..expected_len |->
                                        EnvSet(acc.envs[p], name, undet_components[p])]])
             ELSE splice_drivers(drivers, i + 1, expected_len, env, acc)

splice_drivers(drivers, i, expected_len, env, acc) ==
    IF i > Len(drivers) THEN acc
    ELSE LET name == drivers[i][1]
             driver == drivers[i][2]
         IN  IF driver.form = "tuple" THEN
                 IF Len(driver.parts) # expected_len
                 THEN [acc EXCEPT !.tag = "LengthMismatch", !.envs = <<>>,
                                  !.tys = driver.parts]
                 ELSE splice_drivers(drivers, i + 1, expected_len, env,
                        [acc EXCEPT !.envs = [p \in 1..expected_len |->
                                        EnvSet(acc.envs[p], name, driver.parts[p])]])
             ELSE IF IsUndet(driver) THEN
                 LET undet_components ==
                         [p \in 1..expected_len |-> underspecified(acc.gensym + p - 1)]
                 IN splice_drivers(drivers, i + 1, expected_len, env,
                        [acc EXCEPT !.gensym = @ + expected_len,
                                    !.ins = Append(@, driver.id),
                                    !.unif = Insert(@, driver.id,
                                                Clo(Tuple(undet_components), env)),
                                    !.envs = [p \in 1..expected_len |->
                                        EnvSet(acc.envs[p], name, undet_components[p])]])
             ELSE [acc EXCEPT !.tag = "UnableToDestructure", !.envs = <<>>,
                              !.tys = <<driver>>]

\* splice_ddd(ddd_parts, context_elts), ddd_parts being the drivers, the body
\* and the environment of a dotdotdot_type node under a negative walk
\* the drivers are resolved in their order: the first whose resolution does
\* not return (panic, unbounded recursion) ends the call, or 0
FirstAborted(drivers) ==
    IF \A i \in 1..Len(drivers) : drivers[i][2] \notin {Overflow.it, Panic.it} THEN 0
    ELSE CHOOSE i \in 1..Len(drivers) :
            /\ drivers[i][2] \in {Overflow.it, Panic.it}
            /\ \A j \in 1..(i - 1) : drivers[j][2] \notin {Overflow.it, Panic.it}

\* a variant that looks at the resolved drivers before the single-element
\* case
SpliceOn_drivers_first(drivers, start, env, context_elts) ==
        IF FirstAborted(drivers) # 0
        THEN [start EXCEPT !.tag = drivers[FirstAborted(drivers)][2].form,
                           !.envs = <<>>, !.tys = <<>>]
        ELSE IF Len(context_elts) = 1 /\ context_elts[1].form = "dotdotdot_type" THEN
            IF context_elts[1].parts[1].form = "dotdotdot_type"
            THEN [start EXCEPT !.tag = "<panic>", !.envs = <<>>, !.tys = <<>>]
            ELSE [start EXCEPT !.tag = "NoSplice", !.envs = <<>>, !.tys = <<>>]
        ELSE splice_drivers(drivers, 1, Len(context_elts), env, start)

SpliceOn(drivers, start, env, context_elts) ==
        IF Len(context_elts) = 1 /\ context_elts[1].form = "dotdotdot_type" THEN
            IF context_elts[1].parts[1].form = "dotdotdot_type"
            THEN [start EXCEPT !.tag = "<panic>", !.envs = <<>>, !.tys = <<>>]
            ELSE [start EXCEPT !.tag = "NoSplice", !.envs = <<>>, !.tys = <<>>]
        ELSE IF FirstAborted(drivers) # 0
        THEN [start EXCEPT !.tag = drivers[FirstAborted(drivers)][2].form,
                           !.envs = <<>>, !.tys = <<>>]
        ELSE splice_drivers(drivers, 1, Len(context_elts), env, start)

splice_ddd(ddd, env, context_elts, unif, g) ==
    SpliceOn([i \in 1..Len(ddd.params) |->
                <<ddd.params[i],
                  resolve(Clo(VariableReference(ddd.params[i]), env), unif).it>>],
             [tag |-> "Splice", unif |-> unif, gensym |-> g,
              envs |-> [p \in 1..Len(context_elts) |-> MtEnv],
              tys |-> <<ddd.parts[1]>>, ins |-> <<>>,
              expected_len |-> Len(context_elts)],
             env, context_elts)

\* the placeholders splice_ddd generates on these inputs
SpliceNeeds(ddd, env, context_elts, unif) ==
    splice_ddd(ddd, env, context_elts, unif, 0).gensym

(* ------------------------- the negative walk -------------------------- *)
\* Results of a negative walk: [tag, unif, gensym, ins, err]
\*   tag  "Ok", "Mismatch", or the abort "<panic>" / "<stack overflow>"
\*   err  the two types of a Mismatch that walk_var reports
WalkRes(tag, unif, g, ins) ==
    [tag |-> tag, unif |-> unif, gensym |-> g, ins |-> ins, err |-> <<>>]
\* Err(TyErr::Mismatch(got, expected))
Mismatch(got, expected, unif, g) ==
    [WalkRes("Mismatch", unif, g, <<>>) EXCEPT !.err = <<got, expected>>]

RECURSIVE subtype_walk(_, _, _, _, _, _)

\* a variant of walk_var in which a mu-protected name matches nothing
Subtype_walk_var_mismatching(t, context_elt, env, unif, g, depth) ==
    IF t.nm \notin DOMAIN env THEN WalkRes("<panic>", unif, g, <<>>)
    ELSE IF env[t.nm] = t THEN Mismatch(context_elt, t, unif, g)
    ELSE subtype_walk(env[t.nm], context_elt, env, unif, g, depth)

\* Subtype::walk_var: lhs is what the environment binds the expected name to
Subtype_walk_var(t, context_elt, env, unif, g, depth) ==
    IF t.nm \notin DOMAIN env THEN WalkRes("<panic>", unif, g, <<>>)
    ELSE IF env[t.nm] = t THEN
        IF context_elt = t THEN WalkRes("Ok", unif, g, <<>>)
        ELSE Mismatch(context_elt, t, unif, g)
    ELSE subtype_walk(env[t.nm], context_elt, env, unif, g, depth)

\* the parts of two nodes of one form, compared in order; the first failure
\* ends the walk
RECURSIVE SubtypeParts(_, _, _, _, _, _)
SubtypeParts(sups, subs, i, env, acc, depth) ==
    IF i > Len(sups) \/ acc.tag # "Ok" THEN acc
    ELSE SubtypeParts(sups, subs, i + 1, env,
            [subtype_walk(sups[i], subs[i], env, acc.unif, acc.gensym, depth)
                EXCEPT !.ins = acc.ins \o @],
            depth)

\* forall_type: the walk enters the body with every parameter underspecified
\* (a fresh placeholder each); a quantified context is compared body to body
RECURSIVE UnderspecifyParams(_, _, _, _)
UnderspecifyParams(env, ps, i, g) ==
    IF i > Len(ps) THEN env
    ELSE UnderspecifyParams(EnvSet(env, ps[i], underspecified(g + i - 1)), ps, i + 1, g)

\* the body of a quantified context, its binders named as the expected
\* side names its own (position by position)
SameBinders(l_params, r) ==
    substitute(r.parts[1],
        [n \in {r.params[i] : i \in 1..Min(Len(l_params), Len(r.params))} |->
            VariableReference(
                l_params[CHOOSE i \in 1..Min(Len(l_params), Len(r.params)) :
                            /\ r.params[i] = n
                            /\ \A j \in (i+1)..Min(Len(l_params), Len(r.params)) :
                                   r.params[j] # n])])

SubtypeForall(l, r, unif, g, depth) ==
    subtype_walk(l.it.parts[1],
                 IF r.it.form = "forall_type" THEN SameBinders(l.it.params, r.it) ELSE r.it,
                 UnderspecifyParams(l.env, l.it.params, 1, g),
                 unif, g + Len(l.it.params), depth)

\* mu_type (the Amber rule): the bodies are compared with the expected
\* binders protected and each context binder assumed to be the expected one
RECURSIVE AmberEnv(_, _, _, _)
AmberEnv(env, l_params, r_params, i) ==
    IF i > Len(l_params) THEN env
    ELSE AmberEnv(
            IF r_params[i] = l_params[i]
               \/ (r_params[i] \in DOMAIN env
                     /\ env[r_params[i]] = VariableReference(l_params[i]))
            THEN env
            ELSE EnvSet(env, r_params[i], VariableReference(l_params[i])),
            l_params, r_params, i + 1)

SubtypeMu(l, r, unif, g, depth) ==
    IF r.it.form # "mu_type" \/ Len(r.it.params) # Len(l.it.params)
    THEN WalkRes("Mismatch", unif, g, <<>>)
    ELSE subtype_walk(l.it.parts[1], r.it.parts[1],
                      BindParams(AmberEnv(l.env, l.it.params, r.it.params, 1),
                                 l.it.params, 1),
                      unif, g, depth)

\* fn: parameters have reversed subtyping, the return type is covariant
RECURSIVE SubtypeFnParts(_, _, _, _, _, _)
SubtypeFnParts(sups, subs, i, env, acc, depth) ==
    IF i > Len(sups) \/ acc.tag # "Ok" THEN acc
    ELSE SubtypeFnParts(sups, subs, i + 1, env,
            [(IF i < Len(sups)
              THEN subtype_walk(subs[i], sups[i], env, acc.unif, acc.gensym, depth)
              ELSE subtype_walk(sups[i], subs[i], env, acc.unif, acc.gensym, depth))
                EXCEPT !.ins = acc.ins \o @],
            depth)

SubtypeFn(l, r, unif, g, depth) ==
    IF r.it.form # "fn" THEN WalkRes("Mismatch", unif, g, <<>>)
    ELSE IF Len(r.it.parts) # Len(l.it.parts)
    THEN WalkRes("LengthMismatch", unif, g, <<>>)
    ELSE SubtypeFnParts(l.it.parts, r.it.parts, 1, l.env,
                        WalkRes("Ok", unif, g, <<>>), depth)

\* a tuple whose one component is a dotdotdot_type: splice_ddd gives an
\* environment per context element, and the body is walked once per element
RECURSIVE SplicePositions(_, _, _, _, _, _, _)
SplicePositions(body, context_elts, envs, i, env, acc, depth) ==
    IF i > Len(context_elts) \/ acc.tag # "Ok" THEN acc
    ELSE SplicePositions(body, context_elts, envs, i + 1, env,
            [subtype_walk(body, context_elts[i], EnvMerge(env, envs[i]),
                          acc.unif, acc.gensym, depth)
                EXCEPT !.ins = acc.ins \o @],
            depth)

SpliceWalk(sp, l, r, depth) ==
    IF sp.tag = "NoSplice"
    THEN SubtypeParts(l.it.parts, r.it.parts, 1, l.env,
                      WalkRes("Ok", sp.unif, sp.gensym, <<>>), depth)
    ELSE IF sp.tag # "Splice" THEN WalkRes(sp.tag, sp.unif, sp.gensym, sp.ins)
    ELSE SplicePositions(sp.tys[1], r.it.parts, sp.envs, 1, l.env,
                         WalkRes("Ok", sp.unif, sp.gensym, sp.ins), depth)

\* struct: every component the context has must be a component of the
\* expected struct, by name, and the two component types are compared, the
\* context's as the expected side
Struct(names, cs) == Node("struct", names, cs)

RECURSIVE SubtypeFields(_, _, _, _, _, _, _)
SubtypeFields(l, r, i, j, env, acc, depth) ==
    IF i > Len(r.params) \/ acc.tag # "Ok" THEN acc
    ELSE IF j > Len(l.params) THEN
        IF r.params[i] \in SeqRange(l.params)
        THEN SubtypeFields(l, r, i + 1, 1, env, acc, depth)
        ELSE [acc EXCEPT !.tag = "NonexistentStructField"]
    ELSE IF l.params[j] # r.params[i]
    THEN SubtypeFields(l, r, i, j + 1, env, acc, depth)
    ELSE SubtypeFields(l, r, i, j + 1, env,
            [subtype_walk(r.parts[i], l.parts[j], env, acc.unif, acc.gensym, depth)
                EXCEPT !.ins = acc.ins \o @],
            depth)

SubtypeStruct(l, r, unif, g, depth) ==
    IF r.it.form # "struct" THEN WalkRes("Mismatch", unif, g, <<>>)
    ELSE SubtypeFields(l.it, r.it, 1, 1, l.env, WalkRes("Ok", unif, g, <<>>), depth)

IsSpliceTuple(t) ==
    t.form = "tuple" /\ Len(t.parts) = 1 /\ t.parts[1].form = "dotdotdot_type"

SubtypeSplice(l, r, unif, g, depth) ==
    IF r.it.form # "tuple" THEN WalkRes("Mismatch", unif, g, <<>>)
    ELSE SpliceWalk(splice_ddd(l.it.parts[1], l.env, r.it.parts, unif, g), l, r, depth)

\* the rule of the resolved expected side l against the resolved context r
SubtypeRule(l, r, unif, g, depth) ==
    IF IsVr(l.it)
    THEN Subtype_walk_var(l.it, r.it, l.env, unif, g, depth)
    ELSE IF l.it.form = "forall_type" THEN SubtypeForall(l, r, unif, g, depth)
    ELSE IF l.it.form = "mu_type" THEN SubtypeMu(l, r, unif, g, depth)
    ELSE IF l.it.form = "fn" THEN SubtypeFn(l, r, unif, g, depth)
    ELSE IF l.it.form = "struct" THEN SubtypeStruct(l, r, unif, g, depth)
    ELSE IF IsSpliceTuple(l.it) THEN SubtypeSplice(l, r, unif, g, depth)
    ELSE IF r.it.form # l.it.form \/ Len(r.it.parts) # Len(l.it.parts)
              \/ r.it.params # l.it.params
    THEN WalkRes("Mismatch", unif, g, <<>>)
    ELSE SubtypeParts(l.it.parts, r.it.parts, 1, l.env,
                      WalkRes("Ok", unif, g, <<>>), depth)

SubtypeOn(pm, unif, g, depth) ==
    IF pm.tag # "Some"
    THEN WalkRes(IF pm.tag = "None" THEN "Ok" ELSE pm.tag, pm.unif, g, pm.ins)
    ELSE SubtypeRule(pm.out[1], pm.out[2], unif, g, depth)

\* walk::<Subtype>(expected, context): pre_match, then the rule of what the
\* expected side resolved to
subtype_walk(expected, context_elt, env, unif, g, depth) ==
    IF depth = 0 THEN WalkRes("<stack overflow>", unif, g, <<>>)
    ELSE SubtypeOn(pre_match(expected, context_elt, env, unif), unif, g, depth - 1)

\* walks nest no deeper than the terms and the environment chains of the
\* pools are long
WalkDepth == 8

\* a variant of must_subtype in which sup becomes the context element
must_subtype_swapped(sub, sup, env, unif, g) ==
    subtype_walk(sub, sup, env, unif, g, WalkDepth)

\* a variant of must_subtype in which every top-level check starts from an
\* empty table
must_subtype_fresh_session(sub, sup, env, unif, g) ==
    subtype_walk(sup, sub, env, MtUnif, g, WalkDepth)

\* must_subtype(sub, sup, env): sub becomes the context element
must_subtype(sub, sup, env, unif, g) == subtype_walk(sup, sub, env, unif, g, WalkDepth)

\* is_subtype(sub, sup, parts): sub becomes the context element of the
\* caller's walk context parts, switched to Subtype; env is the environment
\* of parts
is_subtype(sub, sup, env, unif, g) == subtype_walk(sup, sub, env, unif, g, WalkDepth)

\* must_equal(lhs, rhs, env): the two canonicalizations' results are compared
MustEqualOn(l, r) ==
    IF l.tag = "overflow" \/ r.tag = "overflow" THEN "<stack overflow>"
    ELSE IF l = r THEN "Ok" ELSE "Mismatch"

must_equal(lhs, rhs, env, unif) ==
    MustEqualOn(canonicalize(lhs, env, unif), canonicalize(rhs, env, unif))

(* ------------------------- inputs of the calls ------------------------ *)
\* x is mu-protected, y refers to it, T stands for the first placeholder
\* (as under `forall T`), S refers to T, F is a defined type
MuEnv ==
    [n \in {"x", "y", "T", "S", "F"} |->
        CASE n = "x" -> VariableReference("x")
          [] n = "y" -> VariableReference("x")
          [] n = "T" -> Undet(1)
          [] n = "S" -> VariableReference("T")
          [] n = "F" -> Forall(<<"D">>, Tuple(<<VariableReference("D")>>))]
\* x and y refer to each other, F unfolds to an application of itself
CycEnv ==
    [n \in {"x", "y", "F"} |->
        CASE n = "x" -> VariableReference("y")
          [] n = "y" -> VariableReference("x")
          [] n = "F" -> Forall(<<"D">>,
                          TypeApply(VariableReference("F"), <<VariableReference("D")>>))]
EnvPool(g) == {e \in {MtEnv, MuEnv, CycEnv} : \A i \in EnvIds(e) : i <= g}

\* the types handed to the top-level checks: placeholders, base types, a
\* variable reference, a tuple over a placeholder
CheckPool(g) ==
    {Undet(i) : i \in 1..g}
    \cup {IntTy, FloatTy, VariableReference("x")}
    \cup {Tuple(<<Undet(i)>>) : i \in 1..(IF g > 0 THEN 1 ELSE 0)}
\* the types handed to resolve and pre_match: those, and type applications
TyPool(g) ==
    CheckPool(g)
    \cup {TypeApply(VariableReference("F"), <<IntTy>>),
          TypeApply(VariableReference("y"), <<IntTy>>)}

\* the types and environments of the tests
int_to_int_fn_ty == Fn(<<IntTy>>, IntTy)
id_fn_ty ==
    Forall(<<"t">>, Fn(<<VariableReference("t")>>, VariableReference("t")))
jane_author == Mu("Charlotte", Fn(<<FloatTy>>, VariableReference("Charlotte")))
jane_psuedonym == Mu("Currer", Fn(<<FloatTy>>, VariableReference("Currer")))
wuthering_author == Mu("Emily", Fn(<<IntTy>>, VariableReference("Emily")))
basic_mu == Mu("X", VariableReference("X"))
dddple == Forall(<<"T">>, Tuple(<<DotDotDot(<<"T">>, VariableReference("T"))>>))
parametric_ty_env ==
    [n \in {"some_int", "identity", "int_to_int"} |->
        CASE n = "some_int" -> IntTy
          [] n = "identity" -> id_fn_ty
          [] n = "int_to_int" -> int_to_int_fn_ty]
mu_env ==
    [n \in {"Charlotte", "Currer", "Emily", "X"} |->
        CASE n = "Charlotte" -> jane_author
          [] n = "Currer" -> jane_psuedonym
          [] n = "Emily" -> wuthering_author
          [] n = "X" -> basic_mu]

\* misc_subtyping_problems: the list types and their environment
misc_list_ty ==
    Forall(<<"Datum">>,
        Mu("List", Node("enum", <<>>,
            <<VariableReference("Datum"),
              TypeApply(VariableReference("List"), <<VariableReference("Datum")>>)>>)))
int_list_ty == Mu("IntList", Node("enum", <<>>, <<IntTy, VariableReference("IntList")>>))
bool_list_ty == Mu("FloatList", Node("enum", <<>>, <<FloatTy, VariableReference("FloatList")>>))
ty_env ==
    [n \in {"IntList", "FloatList", "List"} |->
        CASE n = "IntList" -> int_list_ty
          [] n = "FloatList" -> bool_list_ty
          [] n = "List" -> misc_list_ty]
\* List reparameterized
reparameterized ==
    Forall(<<"Datum2">>,
        TypeApply(VariableReference("List"), <<VariableReference("Datum2")>>))
\* struct_subtyping: the structs of the test
ab_struct == Struct(<<"a", "b">>, <<IntTy, NatTy>>)
abc_struct == Struct(<<"a", "b", "c">>, <<IntTy, NatTy, FloatTy>>)
ba_struct == Struct(<<"b", "a">>, <<NatTy, IntTy>>)
scrambled_struct == Struct(<<"b", "a">>, <<IntTy, NatTy>>)

\* the concrete tuple of n components (Int; Float; Nat; Int; ...)
BaseTys == <<IntTy, FloatTy, NatTy>>
TupleOf(n) == Tuple([i \in 1..n |-> BaseTys[((i - 1) % 3) + 1]])
\* a splice outside its quantifier, and an environment that gives its driver
ddd_tuple == Tuple(<<DotDotDot(<<"T">>, VariableReference("T"))>>)
SpliceEnv == [n \in {"T"} |-> TupleOf(MaxArity)]

\* the checks <<sub, sup, env>> of the tests, on tuples of every arity
SubtypeCases ==
    {<<IntTy, IntTy, MtEnv>>, <<FloatTy, IntTy, MtEnv>>}
    \cup {<<sub, sup, MtEnv>> : sub, sup \in {int_to_int_fn_ty, id_fn_ty}}
    \cup {<<VariableReference("int_to_int"), VariableReference("identity"),
            parametric_ty_env>>,
          <<VariableReference("identity"), VariableReference("int_to_int"),
            parametric_ty_env>>,
          <<TypeApply(VariableReference("identity"), <<IntTy>>),
            TypeApply(VariableReference("identity"), <<IntTy>>), parametric_ty_env>>}
    \cup {<<sub, sup, mu_env>> : sub, sup \in {jane_author, jane_psuedonym, wuthering_author}}
    \cup {<<basic_mu, basic_mu, mu_env>>, <<dddple, dddple, MtEnv>>}
    \cup {<<VariableReference("List"), reparameterized, ty_env>>,
          <<int_list_ty, int_list_ty, ty_env>>, <<int_list_ty, bool_list_ty, ty_env>>}
    \cup {<<ab_struct, sup, MtEnv>> :
            sup \in {ab_struct, abc_struct, ba_struct, scrambled_struct}}
    \cup {<<TupleOf(n), dddple, MtEnv>> : n \in 1..MaxArity}
    \cup {<<TupleOf(n), ddd_tuple, SpliceEnv>> : n \in 1..MaxArity}

\* incomplete_fn_ty of the tests: a function type from Int whose return type
\* is a placeholder without a determination, against the two function types
incomplete_fn_ty(i) == Fn(<<IntTy>>, Undet(i))
IncompleteCases(g, unif) ==
    {<<incomplete_fn_ty(i), sup, MtEnv>> :
        i \in (1..g) \ DOMAIN unif, sup \in {int_to_int_fn_ty, id_fn_ty}}

DddPool ==
    {DotDotDot(<<"T">>, VariableReference("T")),
     DotDotDot(<<"T", "S">>, Tuple(<<VariableReference("T"), VariableReference("S")>>)),
     DotDotDot(<<"x">>, VariableReference("x"))}
EltPool ==
    {<<IntTy>>, <<IntTy, FloatTy>>,
     <<DotDotDot(<<"T">>, VariableReference("T"))>>,
     <<DotDotDot(<<"T">>, DotDotDot(<<"T">>, VariableReference("T")))>>}

(* ------------------------------ actions ------------------------------- *)
\* what the latest call was and returned
\*   pre  the placeholders that had a determination when it started
\*   ins  the placeholders it inserted into the store, in order
Last(op, pre, tag, ins) == [op |-> op, pre |-> pre, tag |-> tag, ins |-> ins]

\* a session of the order experiment: the comparisons made so far, the
\* result of the latest, its own unification table
Session(k, tag, unif) == [k |-> k, tag |-> tag, unif |-> unif]
NoOrder == [comps |-> <<>>, perm |-> <<>>,
            fwd |-> Session(0, "Ok", MtUnif), bwd |-> Session(0, "Ok", MtUnif)]

\* a call of `op` on the arguments `args` and the store `before`, and its
\* result
Call(op, args, before, res) == [op |-> op, args |-> args, before |-> before, res |-> res]
NoCall == Call("", <<>>, MtUnif, <<>>)

Init ==
    /\ unification = MtUnif
    /\ gensym = 0
    /\ last = Last("init", {}, "", <<>>)
    /\ merged = {}
    /\ calls = 0
    /\ order = NoOrder
    /\ checked = <<>>
    /\ returned = NoCall

\* Subtype::underspecified(name)
Underspecified ==
    /\ gensym < MaxIds
    /\ gensym' = gensym + 1
    /\ last' = Last("underspecified", DOMAIN unification, "Ok", <<>>)
    /\ UNCHANGED <<unification, merged, calls, order, checked, returned>>

\* Subtype::pre_match(lhs_ty, rhs_ty, env)
PreMatch ==
    /\ calls < MaxCalls
    /\ \E env \in EnvPool(gensym) : \E lhs_ty, rhs_ty \in TyPool(gensym) :
        \E r \in {pre_match(lhs_ty, rhs_ty, env, unification)} :
            /\ unification' = r.unif
            /\ last' = Last("pre_match", DOMAIN unification, r.tag, r.ins)
            /\ merged' = IF /\ IsUndet(lhs_ty) /\ IsUndet(rhs_ty)
                            /\ lhs_ty.id \notin DOMAIN unification
                            /\ rhs_ty.id \notin DOMAIN unification
                            /\ lhs_ty.id # rhs_ty.id
                         THEN merged \cup {<<lhs_ty.id, rhs_ty.id>>}
                         ELSE merged
    /\ calls' = calls + 1
    /\ UNCHANGED <<gensym, order, checked, returned>>

\* splice_ddd(ddd_parts, context_elts)
SpliceDdd ==
    /\ calls < MaxCalls
    /\ \E env \in EnvPool(gensym) : \E ddd \in DddPool : \E elts \in EltPool :
        /\ gensym + SpliceNeeds(ddd, env, elts, unification) <= MaxIds
        /\ \E r \in {splice_ddd(ddd, env, elts, unification, gensym)} :
               /\ unification' = r.unif
               /\ gensym' = r.gensym
               /\ last' = Last("splice_ddd", DOMAIN unification, r.tag, r.ins)
    /\ calls' = calls + 1
    /\ UNCHANGED <<merged, order, checked, returned>>

\* a variant of resolve that records what a placeholder resolved to
Resolve_caching ==
    /\ calls < MaxCalls
    /\ \E env \in EnvPool(gensym) : \E t \in TyPool(gensym) :
        \E r \in {resolve(Clo(t, env), unification)} :
            /\ last' = Last("resolve", DOMAIN unification,
                            IF Aborted(r) THEN r.it.form ELSE "Ok", <<>>)
            /\ unification' = IF IsUndet(t) /\ ~Aborted(r)
                               THEN Insert(unification, t.id, r) ELSE unification
    /\ calls' = calls + 1
    /\ UNCHANGED <<gensym, merged, order, checked, returned>>

\* resolve(closure, &unification)
Resolve ==
    /\ calls < MaxCalls
    /\ \E env \in EnvPool(gensym) : \E t \in TyPool(gensym) :
        \E r \in {resolve(Clo(t, env), unification)} :
            last' = Last("resolve", DOMAIN unification,
                         IF Aborted(r) THEN r.it.form ELSE "Ok", <<>>)
    /\ calls' = calls + 1
    /\ UNCHANGED <<unification, gensym, merged, order, checked, returned>>

\* what canonicalize is called on: the types, and a quantified type
CanonPool(g) ==
    CheckPool(g) \cup {Forall(<<"D">>, Tuple(<<VariableReference("D"), VariableReference("x")>>))}

\* a variant of canonicalize in which a binder's name is underspecified as
\* Subtype does it: with a gensym
Canonicalize_unifying ==
    /\ calls < MaxCalls
    /\ \E env \in EnvPool(gensym) : \E t \in CanonPool(gensym) :
        \E r \in {canonicalize(t, env, unification)} :
            /\ last' = Last("canonicalize", DOMAIN unification,
                            IF r.tag = "overflow" THEN "<stack overflow>" ELSE r.tag, <<>>)
            /\ gensym' = IF t.form = "forall_type" /\ gensym < MaxIds
                          THEN gensym + 1 ELSE gensym
    /\ calls' = calls + 1
    /\ UNCHANGED <<unification, merged, order, checked, returned>>

\* canonicalize(t, env)
Canonicalize ==
    /\ calls < MaxCalls
    /\ \E env \in EnvPool(gensym) : \E t \in CanonPool(gensym) :
        \E r \in {canonicalize(t, env, unification)} :
            last' = Last("canonicalize", DOMAIN unification,
                         IF r.tag = "overflow" THEN "<stack overflow>" ELSE r.tag, <<>>)
    /\ calls' = calls + 1
    /\ UNCHANGED <<unification, gensym, merged, order, checked, returned>>

\* must_subtype(sub, sup, env)
MustSubtype ==
    /\ calls < MaxCalls
    /\ \E env \in EnvPool(gensym) : \E sub, sup \in CheckPool(gensym) :
        \E r \in {must_subtype(sub, sup, env, unification, gensym)} :
            /\ unification' = r.unif
            /\ gensym' = r.gensym
            /\ last' = Last("must_subtype", DOMAIN unification, r.tag, r.ins)
    /\ calls' = calls + 1
    /\ UNCHANGED <<merged, order, checked, returned>>

\* is_subtype(sub, sup, parts), parts holding an environment of the pool
IsSubtype ==
    /\ calls < MaxCalls
    /\ \E env \in EnvPool(gensym) : \E sub, sup \in CheckPool(gensym) :
        \E r \in {is_subtype(sub, sup, env, unification, gensym)} :
            /\ unification' = r.unif
            /\ gensym' = r.gensym
            /\ last' = Last("is_subtype", DOMAIN unification, r.tag, r.ins)
    /\ calls' = calls + 1
    /\ UNCHANGED <<merged, order, checked, returned>>

\* must_equal(lhs, rhs, env)
MustEqual ==
    /\ calls < MaxCalls
    /\ \E env \in EnvPool(gensym) : \E lhs, rhs \in CheckPool(gensym) :
        last' = Last("must_equal", DOMAIN unification,
                     must_equal(lhs, rhs, env, unification), <<>>)
    /\ calls' = calls + 1
    /\ UNCHANGED <<unification, gensym, merged, order, checked, returned>>

\* must_subtype(sub, sup, env) on the types of the tests
SubtypeTest ==
    /\ calls < MaxCalls
    /\ \E c \in SubtypeCases \cup IncompleteCases(gensym, unification) :
        \E r \in {must_subtype(c[1], c[2], c[3], unification, gensym)} :
            /\ r.gensym <= MaxIds
            /\ unification' = r.unif
            /\ gensym' = r.gensym
            /\ last' = Last("must_subtype", DOMAIN unification, r.tag, r.ins)
            /\ checked' = c
    /\ calls' = calls + 1
    /\ UNCHANGED <<merged, order, returned>>

Next ==
    \/ Underspecified
    \/ PreMatch
    \/ SpliceDdd
    \/ Resolve
    \/ Canonicalize
    \/ MustSubtype
    \/ IsSubtype
    \/ MustEqual
    \/ SubtypeTest

Spec == Init /\ [][Next]_vars

\* the calls that make determinations, as the negative walk issues them
NextDeterminations ==
    \/ Underspecified
    \/ PreMatch
    \/ SpliceDdd

SpecDeterminations == Init /\ [][NextDeterminations]_vars

\* those, and calls of resolve on the stores they reach
NextResolve ==
    \/ Underspecified
    \/ PreMatch
    \/ SpliceDdd
    \/ Resolve

SpecResolve == Init /\ [][NextResolve]_vars


\* the top-level entry points only
NextChecks ==
    \/ Underspecified
    \/ MustSubtype
    \/ MustEqual
    \/ Canonicalize

SpecChecks == Init /\ [][NextChecks]_vars

\* the checks of the tests
NextSubtype ==
    \/ Underspecified
    \/ SubtypeTest

SpecSubtype == Init /\ [][NextSubtype]_vars

\* those, and calls of splice_ddd on the stores they reach
NextSplice ==
    \/ Underspecified
    \/ SpliceDdd
    \/ SubtypeTest

SpecSplice == Init /\ [][NextSplice]_vars

(* ------------------- the same comparisons, two orders ----------------- *)
\* Two sessions (two threads, each with its own thread-local table) are
\* given the same comparisons <<sub, sup>> between placeholders and base
\* types, the second session in a permuted order. A session stops at its
\* first failure.
FlatPool == {Undet(i) : i \in 1..OrderIds} \cup {IntTy, FloatTy}
Perms(n) == {f \in [1..n -> 1..n] : \A i, j \in 1..n : i # j => f[i] # f[j]}

InitOrder ==
    /\ unification = MtUnif
    /\ gensym = OrderIds
    /\ last = Last("init", {}, "", <<>>)
    /\ merged = {}
    /\ calls = 0
    /\ checked = <<>>
    /\ returned = NoCall
    /\ \E comps \in [1..MaxComps -> FlatPool \X FlatPool] : \E perm \in Perms(MaxComps) :
        order = [comps |-> comps, perm |-> perm,
                 fwd |-> Session(0, "Ok", MtUnif), bwd |-> Session(0, "Ok", MtUnif)]

SessionDone(s) == s.k = Len(order.comps) \/ s.tag # "Ok"

SessionOn(s, r) == Session(s.k + 1, r.tag, r.unif)
SessionStep(s, comp) ==
    SessionOn(s, must_subtype(comp[1], comp[2], MtEnv, s.unif, gensym))

\* the first session makes its next comparison, in the order given
StepFwd ==
    /\ ~SessionDone(order.fwd)
    /\ order' = [order EXCEPT !.fwd = SessionStep(@, order.comps[order.fwd.k + 1])]
    /\ UNCHANGED <<unification, gensym, last, merged, calls, checked, returned>>

\* the second session makes its next comparison, in the permuted order
StepBwd ==
    /\ SessionDone(order.fwd)
    /\ ~SessionDone(order.bwd)
    /\ order' = [order EXCEPT
                    !.bwd = SessionStep(@, order.comps[order.perm[order.bwd.k + 1]])]
    /\ UNCHANGED <<unification, gensym, last, merged, calls, checked, returned>>

NextOrder ==
    \/ StepFwd
    \/ StepBwd

SpecOrder == InitOrder /\ [][NextOrder]_vars

(* ============================== claims ================================ *)
\* the placeholders reachable from the closure stored for i, following the
\* underdetermined nodes of the stored terms at any depth
RECURSIVE ReachableIds(_, _, _)
ReachableIds(unif, frontier, seen) ==
    IF frontier \subseteq seen THEN seen
    ELSE ReachableIds(unif,
            UNION {TermIds(unif[j].it) : j \in (frontier \ seen) \cap DOMAIN unif},
            seen \cup frontier)
MentionedFrom(unif, i) == ReachableIds(unif, TermIds(unif[i].it), {})

RECURSIVE IsGround(_)
IsGround(t) ==
    /\ t.form \notin {"vr", "underdetermined", "type_apply", "dotdotdot_type"}
    /\ \A i \in 1..Len(t.parts) : IsGround(t.parts[i])

TopLevelChecks == {"must_subtype", "must_equal", "canonicalize"}

(* ------------------ the engine's functions, call by call -------------- *)
\* stores that determinations leave:
\*   a placeholder determined to Int; merged into another; merged and then
\*   determined; a chain of two merges; determined to a tuple over another
\*   placeholder; to a name under the environment that protects it; to a
\*   name no environment binds; to an unfolded type application; to a tuple
\*   over itself
StorePool ==
    {MtUnif,
     Insert(MtUnif, 1, Clo(IntTy, MtEnv)),
     Insert(MtUnif, 1, Clo(Undet(2), MtEnv)),
     Insert(Insert(MtUnif, 1, Clo(Undet(2), MtEnv)), 2, Clo(IntTy, MtEnv)),
     Insert(Insert(MtUnif, 1, Clo(Undet(2), MtEnv)), 2, Clo(Undet(3), MtEnv)),
     Insert(MtUnif, 2, Clo(Tuple(<<Undet(1)>>), MtEnv)),
     Insert(MtUnif, 1, Clo(VariableReference("x"), MuEnv)),
     Insert(MtUnif, 1, Clo(VariableReference("x"), MtEnv)),
     Insert(MtUnif, 1, Clo(Tuple(<<IntTy>>), MuEnv)),
     Insert(MtUnif, 1, Clo(Tuple(<<Undet(1)>>), MtEnv))}

\* list_ty of basic_resolve: forall Datum. mu List. enum(Nil(), Cons(Datum,
\* List<?1>)), and the environment that defines List
list_ty ==
    Forall(<<"Datum">>,
        Mu("List", Node("enum", <<>>,
            <<VariableReference("Datum"),
              TypeApply(VariableReference("List"), <<Undet(1)>>)>>)))
t_env == [n \in {"List"} |-> list_ty]

\* an environment that defines x
DefEnv == [n \in {"x"} |-> IntTy]

\* the environments of the calls
CallEnvs(g) == EnvPool(g) \cup {DefEnv, t_env}

\* the types of the pool, and the names the environments of the pool bind
NamedPool(g) ==
    TyPool(g) \cup {VariableReference(n) : n \in {"y", "T", "S"}}

\* what resolve is called on: those, and type applications whose operator
\* is a protected name, a defined type given no or one argument, the list
\* type, a name bound to a base type, a base type
ResolvePool(g) ==
    NamedPool(g)
    \cup {TypeApply(VariableReference(n), <<Undet(1)>>) : n \in {"x", "y", "F", "List"}}
    \cup {TypeApply(VariableReference("F"), <<>>),
          TypeApply(VariableReference("x"), <<IntTy>>),
          TypeApply(IntTy, <<IntTy>>)}

InitCalls ==
    /\ unification \in StorePool
    /\ gensym = MaxIds
    /\ last = Last("init", DOMAIN unification, "", <<>>)
    /\ merged = {}
    /\ calls = 0
    /\ order = NoOrder
    /\ checked = <<>>
    /\ returned = NoCall

\* Subtype::pre_match(lhs_ty, rhs_ty, env), once on a store of the pool
PreMatchCall ==
    /\ returned = NoCall
    /\ \E env \in CallEnvs(gensym) : \E lhs_ty, rhs_ty \in NamedPool(gensym) :
        \E r \in {pre_match(lhs_ty, rhs_ty, env, unification)} :
            /\ unification' = r.unif
            /\ last' = Last("pre_match", DOMAIN unification, r.tag, r.ins)
            /\ returned' = Call("pre_match", <<lhs_ty, rhs_ty, env>>, unification, r)
    /\ calls' = calls + 1
    /\ UNCHANGED <<gensym, merged, order, checked>>

\* resolve(Clo { it: t, env }, &unification), once on a store of the pool
ResolveCall ==
    /\ returned = NoCall
    /\ \E env \in CallEnvs(gensym) : \E t \in ResolvePool(gensym) :
        \E r \in {resolve(Clo(t, env), unification)} :
            /\ last' = Last("resolve", DOMAIN unification,
                            IF Aborted(r) THEN r.it.form ELSE "Ok", <<>>)
            /\ returned' = Call("resolve", <<t, env>>, unification, r)
    /\ calls' = calls + 1
    /\ UNCHANGED <<unification, gensym, merged, order, checked>>

\* canonicalize(t, env), once on a store of the pool
CanonicalizeCall ==
    /\ returned = NoCall
    /\ \E env \in CallEnvs(gensym) : \E t \in CanonPool(gensym) :
        \E r \in {canonicalize(t, env, unification)} :
            /\ last' = Last("canonicalize", DOMAIN unification,
                            IF r.tag = "overflow" THEN "<stack overflow>" ELSE r.tag, <<>>)
            /\ returned' = Call("canonicalize", <<t, env>>, unification, r)
    /\ calls' = calls + 1
    /\ UNCHANGED <<unification, gensym, merged, order, checked>>

\* Subtype::walk_var(n, cnc), once on a store of the pool: the expected side
\* is the name n, cnc holds the context element and the environment
WalkVarCall ==
    /\ returned = NoCall
    /\ \E env \in CallEnvs(gensym) : \E n \in {"x", "y", "T", "S"} :
        \E context_elt \in NamedPool(gensym) :
        \E r \in {Subtype_walk_var(VariableReference(n), context_elt, env,
                                   unification, gensym, WalkDepth)} :
            /\ r.gensym <= MaxIds
            /\ unification' = r.unif
            /\ gensym' = r.gensym
            /\ last' = Last("walk_var", DOMAIN unification, r.tag, r.ins)
            /\ returned' = Call("walk_var", <<VariableReference(n), context_elt, env>>,
                                unification, r)
    /\ calls' = calls + 1
    /\ UNCHANGED <<merged, order, checked>>

\* the dotdotdot_type nodes of the calls: those of the pool, and one whose
\* second driver is a name that does not resolve to a tuple
SplicePool ==
    DddPool
    \cup {DotDotDot(<<"T", "x">>, Tuple(<<VariableReference("T"), VariableReference("x")>>))}

\* splice_ddd(ddd_parts, context_elts), once on a store of the pool
SpliceCall ==
    /\ returned = NoCall
    /\ \E env \in CallEnvs(gensym) \cup {SpliceEnv} : \E ddd \in SplicePool :
        \E elts \in EltPool :
        \E r \in {splice_ddd(ddd, env, elts, unification, gensym)} :
            /\ unification' = r.unif
            /\ gensym' = r.gensym
            /\ last' = Last("splice_ddd", DOMAIN unification, r.tag, r.ins)
            /\ returned' = Call("splice_ddd", <<ddd, env, elts>>, unification, r)
    /\ calls' = calls + 1
    /\ UNCHANGED <<merged, order, checked>>

\* must_equal(lhs, rhs, env), once on a store of the pool; a Mismatch
\* carries the two arguments
MustEqualCall ==
    /\ returned = NoCall
    /\ \E env \in CallEnvs(gensym) : \E lhs, rhs \in CheckPool(gensym) :
        \E tag \in {must_equal(lhs, rhs, env, unification)} :
            /\ last' = Last("must_equal", DOMAIN unification, tag, <<>>)
            /\ returned' = Call("must_equal", <<lhs, rhs, env>>, unification,
                                [tag |-> tag,
                                 err |-> IF tag = "Mismatch" THEN <<lhs, rhs>> ELSE <<>>])
    /\ calls' = calls + 1
    /\ UNCHANGED <<unification, gensym, merged, order, checked>>

NextCalls ==
    \/ PreMatchCall
    \/ ResolveCall
    \/ CanonicalizeCall
    \/ WalkVarCall
    \/ SpliceCall
    \/ MustEqualCall

SpecCalls == InitCalls /\ [][NextCalls]_vars

\* C1: in every state reached by pre_match and splice_ddd calls, no
\* placeholder is reachable from its own stored closure through
\* underdetermined nodes, nested ones included.
C1_StoreAcyclic ==
    \A i \in DOMAIN unification : i \notin MentionedFrom(unification, i)

\* C2: a call inserts a placeholder into the store at most once, and never
\* one that already had a determination.
C2_FirstDeterminationWins ==
    /\ \A i \in 1..Len(last.ins) : last.ins[i] \notin last.pre
    /\ \A i, j \in 1..Len(last.ins) : i # j => last.ins[i] # last.ins[j]

\* C3: once pre_match has merged two unbound placeholders l and r (which
\* succeeds with None), both resolve to the same type and canonicalize to
\* the same result; once a later determination gives the merged pair a
\* concrete type T, both resolve and canonicalize to T.
C3_PlaceholderMerge ==
    \A m \in merged :
        /\ m[1] \in DOMAIN unification
        /\ m[1] \notin last.pre =>
               last.op = "pre_match" /\ last.tag = "None" /\ last.ins = <<m[1]>>
        /\ \A e \in EnvPool(gensym) :
            /\ resolve(Clo(Undet(m[1]), e), unification).it
                   = resolve(Clo(Undet(m[2]), e), unification).it
            /\ canonicalize(Undet(m[1]), e, unification)
                   = canonicalize(Undet(m[2]), e, unification)
            /\ (m[2] \in DOMAIN unification /\ IsGround(unification[m[2]].it)) =>
                /\ resolve(Clo(Undet(m[1]), e), unification) = unification[m[2]]
                /\ resolve(Clo(Undet(m[2]), e), unification) = unification[m[2]]
                /\ canonicalize(Undet(m[1]), e, unification)
                       = CanonOk(unification[m[2]].it)
                /\ canonicalize(Undet(m[2]), e, unification)
                       = CanonOk(unification[m[2]].it)

C3_Witness ==
    \E m \in merged : m[2] \in DOMAIN unification /\ unification[m[2]].it = IntTy

\* what placeholder i resolves to in a session of the order experiment
FinalTy(s, i) == resolve(Clo(Undet(i), MtEnv), s.unif).it
BothDone == order.comps # <<>> /\ SessionDone(order.fwd) /\ SessionDone(order.bwd)

\* C4 (as stated): the same comparisons in another order give the same
\* outcome and the same final resolved type for every placeholder.
C4_OrderIndependent ==
    BothDone =>
        /\ order.fwd.tag = order.bwd.tag
        /\ \A i \in 1..gensym : FinalTy(order.fwd, i) = FinalTy(order.bwd, i)

\* C4 (amended): for comparisons between placeholders and base types the
\* outcome is the same in every order, and when the comparisons succeed a
\* placeholder that ends determined in one order ends determined to the same
\* type in the other.
C4_OutcomeOrderIndependent ==
    BothDone =>
        /\ order.fwd.tag = order.bwd.tag
        /\ order.fwd.tag = "Ok" =>
            \A i \in 1..gensym :
                (~IsUndet(FinalTy(order.fwd, i)) \/ ~IsUndet(FinalTy(order.bwd, i)))
                    => FinalTy(order.fwd, i) = FinalTy(order.bwd, i)

C4_Witness ==
    /\ BothDone
    /\ order.perm # <<1, 2>>
    /\ order.comps[1] # order.comps[2]
    /\ order.fwd.tag = "Ok"
    /\ order.fwd.unif # order.bwd.unif
    /\ \E i \in 1..gensym : FinalTy(order.fwd, i) = IntTy

\* C5 (as stated): a top-level check starts with a store holding no
\* determination of an earlier check.
C5_SessionReset ==
    last.op \in TopLevelChecks => last.pre = {}

\* C5 (amended): no call resets the store: every determination is still
\* there, unchanged, after each step, so a top-level check starts with all
\* the determinations the earlier checks of its thread made.
C5_NoReset ==
    [][\A i \in DOMAIN unification :
          i \in DOMAIN unification' /\ unification'[i] = unification[i]]_vars

C5_Witness ==
    /\ last.op = "must_subtype"
    /\ last.pre # {}
    /\ last.ins # <<>>
    /\ last.pre \subseteq DOMAIN unification

\* C6: a subtype check whose expected side is a variable reference with no
\* entry in the environment returns an UnboundName failure.
C6_UnboundNameIsAResult ==
    \A sub \in CheckPool(gensym) :
        /\ must_subtype(sub, VariableReference("x"), MtEnv, unification, gensym).tag
               = "UnboundName"
        /\ is_subtype(sub, VariableReference("x"), MtEnv, unification, gensym).tag
               = "UnboundName"

\* C7: a call of resolve, returning or aborting, leaves the store as it was.
C7_ResolveReadOnly ==
    [][(last'.op = "resolve" /\ calls' = calls + 1) => unification' = unification]_vars

C7_Witness ==
    /\ last.op = "resolve"
    /\ last.tag = "Ok"
    /\ last.pre # {}
    /\ DOMAIN unification = last.pre

\* C8: a call of canonicalize changes no store entry and generates no
\* placeholder name.
C8_CanonicalizeReadOnly ==
    [][(last'.op = "canonicalize" /\ calls' = calls + 1)
          => (unification' = unification /\ gensym' = gensym)]_vars

C8_Witness ==
    /\ last.op = "canonicalize"
    /\ last.tag = "Ok"
    /\ last.pre # {}
    /\ DOMAIN unification = last.pre

\* C9: on every store reached by pre_match and splice_ddd determinations,
\* canonicalizing a placeholder returns a type or UnboundName.
C9_CanonicalizeTotal ==
    \A i \in 1..gensym : \A e \in EnvPool(gensym) :
        canonicalize(Undet(i), e, unification).tag \in {"Ok", "UnboundName"}

\* C10: resolve returns on every closure over the environments and every
\* store reached by pre_match and splice_ddd.
C10_ResolveTerminates ==
    \A e \in EnvPool(gensym) : \A t \in TyPool(gensym) :
        resolve(Clo(t, e), unification) # Overflow

\* C11: whenever canonicalize(T, E) succeeds, canonicalizing its result in E
\* gives that result again.
C11_CanonicalizeIdempotent ==
    \A e \in EnvPool(gensym) \cup {DefEnv} : \A t \in CanonPool(gensym) :
        canonicalize(t, e, unification).tag = "Ok" =>
            canonicalize(canonicalize(t, e, unification).ty, e, unification)
                = canonicalize(t, e, unification)

\* the environments of well-formed types: every name leads to a type or to a
\* protected name
WfEnvs(g) ==
    {e \in {MtEnv, MuEnv, parametric_ty_env, mu_env} : \A i \in EnvIds(e) : i <= g}
\* well-formed types over e: base types, fn types, forall types, mu types,
\* the variables e binds, applications of the quantified types e defines
WellFormed(e) ==
    {IntTy, FloatTy, int_to_int_fn_ty, Fn(<<IntTy>>, FloatTy), id_fn_ty,
     Forall(<<"t">>, VariableReference("t")), dddple, basic_mu, jane_author}
    \cup {VariableReference(n) : n \in DOMAIN e}
    \cup {TypeApply(VariableReference(n), <<IntTy>>) :
            n \in {m \in DOMAIN e : e[m].form = "forall_type" /\ Len(e[m].params) = 1}}

\* C12: must_subtype(T, T, E) returns Ok for every well-formed type T over E,
\* on every store the checks of the tests leave.
C12_Reflexive ==
    \A e \in WfEnvs(gensym) : \A t \in WellFormed(e) :
        must_subtype(t, t, e, unification, gensym).tag = "Ok"

C12_Witness ==
    /\ last.op = "must_subtype"
    /\ last.tag = "Ok"
    /\ last.pre # {}
    /\ checked # <<>>
    /\ checked[1] = checked[2]
    /\ checked[1] = id_fn_ty

\* C13: the concrete function type Int -> Int is a subtype of the quantified
\* identity function type, directly and through the variables bound to them;
\* the quantified type is not a subtype of the concrete one: Mismatch.
C13_Preorder ==
    /\ must_subtype(int_to_int_fn_ty, id_fn_ty, MtEnv, unification, gensym).tag = "Ok"
    /\ must_subtype(VariableReference("int_to_int"), VariableReference("identity"),
                    parametric_ty_env, unification, gensym).tag = "Ok"
    /\ must_subtype(id_fn_ty, int_to_int_fn_ty, MtEnv, unification, gensym).tag
           = "Mismatch"
    /\ must_subtype(VariableReference("identity"), VariableReference("int_to_int"),
                    parametric_ty_env, unification, gensym).tag = "Mismatch"

C13_Witness ==
    /\ last.op = "must_subtype"
    /\ last.tag = "Mismatch"
    /\ last.pre # {}
    /\ checked = <<id_fn_ty, int_to_int_fn_ty, MtEnv>>

\* C14: two mu types with the same body and differently named binders are
\* subtypes of each other; a mu type over an Int-domain function and one over
\* the same function with a Float domain are not subtypes: Mismatch.
C14_Amber ==
    /\ must_subtype(jane_author, jane_psuedonym, mu_env, unification, gensym).tag = "Ok"
    /\ must_subtype(jane_psuedonym, jane_author, mu_env, unification, gensym).tag = "Ok"
    /\ must_subtype(jane_author, wuthering_author, mu_env, unification, gensym).tag
           = "Mismatch"
    /\ must_subtype(wuthering_author, jane_author, mu_env, unification, gensym).tag
           = "Mismatch"

C14_Witness ==
    /\ last.op = "must_subtype"
    /\ last.tag = "Ok"
    /\ checked = <<jane_author, jane_psuedonym, mu_env>>

\* C15: the check of the self-referential type mu X. X against itself, under
\* an environment that binds X, returns Ok within two nested walks (the mu
\* node, then its body): resolve leaves the protected name alone and
\* walk_var compares it by name.
C15_DivergenceGuard ==
    /\ subtype_walk(basic_mu, basic_mu, mu_env, unification, gensym, 2).tag = "Ok"
    /\ must_subtype(basic_mu, basic_mu, mu_env, unification, gensym).tag = "Ok"
    /\ resolve(Clo(VariableReference("X"), BindParams(mu_env, <<"X">>, 1)), unification)
           = Clo(VariableReference("X"), BindParams(mu_env, <<"X">>, 1))

C15_Witness ==
    /\ last.op = "must_subtype"
    /\ last.tag = "Ok"
    /\ checked = <<basic_mu, basic_mu, mu_env>>

\* the placeholder the latest check generated for the binder T of dddple:
\* the first of the 1 + N names the check generated
SplicedT == Undet(gensym - Len(checked[1].parts))

\* C16: a concrete N-tuple is a subtype of forall T. tuple(...T); after the
\* check T's placeholder resolves to a tuple of exactly N components, the
\* i-th of which resolves to the i-th component of the concrete tuple.
C16_SpliceArity ==
    (/\ last.op = "must_subtype"
     /\ checked # <<>>
     /\ checked[1].form = "tuple"
     /\ checked[2] = dddple)
    => /\ last.tag = "Ok"
       /\ SplicedT.id \notin last.pre
       /\ resolve(Clo(SplicedT, MtEnv), unification).it.form = "tuple"
       /\ Len(resolve(Clo(SplicedT, MtEnv), unification).it.parts)
              = Len(checked[1].parts)
       /\ \A i \in 1..Len(checked[1].parts) :
              resolve(Clo(resolve(Clo(SplicedT, MtEnv), unification).it.parts[i],
                          resolve(Clo(SplicedT, MtEnv), unification).env),
                      unification).it
                  = checked[1].parts[i]

C16_Witness ==
    /\ last.op = "must_subtype"
    /\ last.tag = "Ok"
    /\ checked = <<TupleOf(MaxArity), dddple, MtEnv>>

\* what the drivers of ddd resolve to in e, and whether the loop of
\* splice_ddd passes a driver
ResolvedDrivers(ddd, e) ==
    [i \in 1..Len(ddd.params) |->
        resolve(Clo(VariableReference(ddd.params[i]), e), unification).it]
DriverFits(d, n) == IsUndet(d) \/ (d.form = "tuple" /\ Len(d.parts) = n)

\* C17: when a driver resolves to a tuple whose component count differs from
\* the number N of context elements (the drivers before it passing),
\* splice_ddd returns LengthMismatch with that driver's components and N, and
\* the enclosing subtype check returns LengthMismatch.
C17_LengthMismatch ==
    /\ \A e \in EnvPool(gensym) \cup {SpliceEnv} : \A ddd \in DddPool :
        \A elts \in {c \in EltPool : c[1].form # "dotdotdot_type"} :
        \A ds \in {ResolvedDrivers(ddd, e)} : \A i \in 1..Len(ddd.params) :
            (/\ ds[i].form = "tuple"
             /\ Len(ds[i].parts) # Len(elts)
             /\ \A j \in 1..(i - 1) : DriverFits(ds[j], Len(elts)))
            => \A r \in {splice_ddd(ddd, e, elts, unification, gensym)} :
                   /\ r.tag = "LengthMismatch"
                   /\ r.tys = ds[i].parts
                   /\ r.expected_len = Len(elts)
    /\ \A n \in 1..MaxArity :
        n # Len(SpliceEnv["T"].parts) =>
            must_subtype(TupleOf(n), ddd_tuple, SpliceEnv, unification, gensym).tag
                = "LengthMismatch"

C17_Witness ==
    /\ last.op = "splice_ddd"
    /\ last.tag = "LengthMismatch"
    /\ last.pre # {}
    /\ checked # <<>>

\* the placeholder ids the store mentions: its keys, and the ids in the terms
\* and environments of its closures
StoreIds ==
    DOMAIN unification
    \cup UNION {TermIds(unification[i].it) \cup EnvIds(unification[i].env) :
                  i \in DOMAIN unification}

\* C18: the placeholder Subtype::underspecified returns next differs from
\* every placeholder returned before and has no entry in the store (nor is
\* it mentioned there) when it is created.
C18_FreshPlaceholders ==
    /\ underspecified(gensym).id \notin 1..gensym
    /\ underspecified(gensym).id \notin StoreIds

C18_Witness ==
    /\ last.op = "underspecified"
    /\ gensym > 1
    /\ DOMAIN unification # {}

\* the store as it was before the last call: the entries under last.pre
StoreBefore == [i \in last.pre |-> unification[i]]

\* C19 as stated: the closure pre_match inserts into the store is never an
\* underdetermined placeholder node.
C19_NoPlaceholderClosure ==
    last.op = "pre_match" =>
        \A k \in 1..Len(last.ins) : ~IsUndet(unification[last.ins[k]].it)

\* C19: the closure pre_match inserts is the other side as resolve returned
\* it: resolving it again on the store before the call gives it back, and
\* when it is a placeholder node it is an unbound one other than the key.
C19_ResolvedClosure ==
    last.op = "pre_match" =>
        \A k \in 1..Len(last.ins) :
            LET c == unification[last.ins[k]] IN
            /\ resolve(c, StoreBefore) = c
            /\ IsUndet(c.it) =>
                   c.it.id # last.ins[k] /\ c.it.id \notin DOMAIN unification

C19_Witness ==
    /\ last.op = "pre_match"
    /\ last.pre # {}
    /\ \E k \in 1..Len(last.ins) :
           /\ IsUndet(unification[last.ins[k]].it)
           /\ unification[last.ins[k]].env # MtEnv

\* pre_match on the current store determines placeholder p to closure o,
\* changes nothing else and succeeds with None
DeterminesOnly(res, p, o) ==
    /\ res.tag = "None"
    /\ res.ins = <<p>>
    /\ p \notin DOMAIN unification
    /\ DOMAIN res.unif = DOMAIN unification \cup {p}
    /\ res.unif[p] = o
    /\ \A i \in DOMAIN unification : res.unif[i] = unification[i]

\* C20: when exactly one side of pre_match resolves to an unbound
\* placeholder p, the store afterwards is the store before plus the one
\* entry p -> the other side's resolved closure, and the call returns None,
\* whichever side carried the placeholder. In the checks of the tests, an
\* incomplete function type against a function type returns Ok and leaves
\* the placeholder of its return type determined to Int.
C20_OneSidedDetermination ==
    /\ \A env \in EnvPool(gensym) : \A lhs_ty, rhs_ty \in TyPool(gensym) :
        \A lhs \in {resolve(Clo(lhs_ty, env), unification)} :
        \A rhs \in {resolve(Clo(rhs_ty, env), unification)} :
            (~Aborted(lhs) /\ ~Aborted(rhs) /\ IsUndet(lhs.it) # IsUndet(rhs.it)) =>
                /\ (IsUndet(lhs.it) /\ ~IsUndet(rhs.it)) =>
                       DeterminesOnly(pre_match(lhs_ty, rhs_ty, env, unification),
                                      lhs.it.id, rhs)
                /\ (IsUndet(rhs.it) /\ ~IsUndet(lhs.it)) =>
                       DeterminesOnly(pre_match(lhs_ty, rhs_ty, env, unification),
                                      rhs.it.id, lhs)
    /\ \A i \in (1..gensym) \ last.pre :
        (last.op = "must_subtype" /\ checked # <<>> /\ checked[1] = incomplete_fn_ty(i))
            => /\ last.tag = "Ok"
               /\ resolve(Clo(Undet(i), MtEnv), unification).it = IntTy

C20_Witness ==
    /\ last.op = "must_subtype"
    /\ last.tag = "Ok"
    /\ checked = <<incomplete_fn_ty(1), int_to_int_fn_ty, MtEnv>>
    /\ last.ins = <<1>>
    /\ unification[1] = Clo(IntTy, MtEnv)
    /\ (1..gensym) \ DOMAIN unification # {}

\* what the two sides of the latest pre_match call resolved to
LhsOf(c) == resolve(Clo(c.args[1], c.args[3]), c.before)
RhsOf(c) == resolve(Clo(c.args[2], c.args[3]), c.before)

\* C21: when both sides of pre_match resolve to the same placeholder, it
\* returns None and leaves the store as it was.
C21_SamePlaceholder ==
    (/\ returned.op = "pre_match"
     /\ IsUndet(LhsOf(returned).it)
     /\ IsUndet(RhsOf(returned).it)
     /\ LhsOf(returned).it.id = RhsOf(returned).it.id)
    => /\ returned.res.tag = "None"
       /\ returned.res.out = <<>>
       /\ returned.res.ins = <<>>
       /\ unification = returned.before

\* two different inputs, a name and a determined placeholder, that resolve
\* to one placeholder on a store with determinations
C21_Witness ==
    /\ returned.op = "pre_match"
    /\ returned.before # MtUnif
    /\ returned.args[1] = VariableReference("S")
    /\ returned.args[2] = Undet(2)
    /\ LhsOf(returned).it = Undet(3)
    /\ RhsOf(returned).it = Undet(3)
    /\ returned.res.tag = "None"

\* C22: when neither side of pre_match resolves to a placeholder, it returns
\* the pair of the two resolved closures and leaves the store as it was.
C22_StructuralPair ==
    (/\ returned.op = "pre_match"
     /\ ~Aborted(LhsOf(returned)) /\ ~Aborted(RhsOf(returned))
     /\ ~IsUndet(LhsOf(returned).it) /\ ~IsUndet(RhsOf(returned).it))
    => /\ returned.res.tag = "Some"
       /\ returned.res.out = <<LhsOf(returned), RhsOf(returned)>>
       /\ returned.res.ins = <<>>
       /\ unification = returned.before

\* a determined placeholder against a defined type's application
C22_Witness ==
    /\ returned.op = "pre_match"
    /\ returned.before # MtUnif
    /\ returned.args[1] = Undet(1)
    /\ returned.args[2] = TypeApply(VariableReference("F"), <<IntTy>>)
    /\ returned.res.tag = "Some"
    /\ returned.res.out = <<Clo(IntTy, MtEnv), Clo(Tuple(<<IntTy>>), MuEnv)>>

\* C23: a placeholder that has an entry in the store has one after every
\* step of the session, and resolving a placeholder that has an entry gives
\* what resolving its stored closure gives.
C23_DeterminationsPersist ==
    /\ [][DOMAIN unification \subseteq DOMAIN unification']_vars
    /\ [](\A i \in DOMAIN unification : \A e \in {MtEnv, MuEnv} :
              resolve(Clo(Undet(i), e), unification)
                  = resolve(unification[i], unification))

\* a second determination made while the first is in the store
C23_Witness ==
    /\ last.op = "pre_match"
    /\ last.pre # {}
    /\ last.ins # <<>>
    /\ \E i \in last.pre : \E j \in DOMAIN unification \ last.pre :
           /\ unification[i].it = Undet(j)
           /\ resolve(Clo(Undet(i), MtEnv), unification) = unification[j]

\* C24: a closure resolve returns resolves to itself on the same store; its
\* term is not a placeholder that has an entry in the store, and not a name
\* its environment binds to another term.
C24_NormalForm ==
    (returned.op = "resolve" /\ ~Aborted(returned.res)) =>
        /\ resolve(returned.res, returned.before) = returned.res
        /\ ~(IsUndet(returned.res.it) /\ returned.res.it.id \in DOMAIN returned.before)
        /\ ~(/\ IsVr(returned.res.it)
              /\ returned.res.it.nm \in DOMAIN returned.res.env
              /\ returned.res.env[returned.res.it.nm] # returned.res.it)

\* a name resolved through the environment and two determinations
C24_Witness ==
    /\ returned.op = "resolve"
    /\ returned.args = <<VariableReference("S"), MuEnv>>
    /\ returned.before = Insert(Insert(MtUnif, 1, Clo(Undet(2), MtEnv)), 2, Clo(IntTy, MtEnv))
    /\ returned.res = Clo(IntTy, MtEnv)

\* the arguments of the latest resolve call
ResolvedTy == returned.args[1]
ResolvedEnv == returned.args[2]

\* C25: resolve of a variable reference that the environment binds to
\* another term gives what resolve of (that term, the same environment)
\* gives; a name bound to a reference to itself, and a name the environment
\* does not bind, come back as the closure given.
C25_VariableReference ==
    (returned.op = "resolve" /\ IsVr(ResolvedTy)) =>
        IF /\ ResolvedTy.nm \in DOMAIN ResolvedEnv
           /\ ResolvedEnv[ResolvedTy.nm] # ResolvedTy
        THEN returned.res
                 = resolve(Clo(ResolvedEnv[ResolvedTy.nm], ResolvedEnv), returned.before)
        ELSE returned.res = Clo(ResolvedTy, ResolvedEnv)

\* a name bound to a protected name: the protected name comes back
C25_Witness ==
    /\ returned.op = "resolve"
    /\ returned.before # MtUnif
    /\ returned.args = <<VariableReference("y"), MuEnv>>
    /\ returned.res = Clo(VariableReference("x"), MuEnv)

\* C26: resolve of a type application whose operator resolves to a variable
\* reference returns the application of that reference to the argument
\* terms, each resolved on its own in the same environment and store.
C26_ProtectedOperator ==
    (/\ returned.op = "resolve"
     /\ ResolvedTy.form = "type_apply"
     /\ ~Aborted(returned.res)
     /\ IsVr(resolve(Clo(Rator(ResolvedTy), ResolvedEnv), returned.before).it))
    => returned.res.it
           = TypeApply(resolve(Clo(Rator(ResolvedTy), ResolvedEnv), returned.before).it,
                       [i \in 1..Len(ArgTerms(ResolvedTy)) |->
                           resolve(Clo(ArgTerms(ResolvedTy)[i], ResolvedEnv),
                                   returned.before).it])

\* what the operator of the latest resolved type application resolves to
ResolvedRator == resolve(Clo(Rator(ResolvedTy), ResolvedEnv), returned.before)
\* the arguments of a type application, by the parameter they stand for
ActualParams(ps, args) ==
    [n \in SeqRange(ps) |->
        args[CHOOSE i \in 1..Len(ps) : ps[i] = n /\ \A j \in (i+1)..Len(ps) : ps[j] # n]]

\* C27: resolve of a type application whose operator resolves to a
\* forall_type: with as many arguments as parameters, the result is what
\* resolve gives on the forall's body with each parameter replaced by its
\* argument (List<?1> unfolds to the mu type with Datum replaced by ?1);
\* with another number of arguments the call panics and the store is
\* unchanged.
C27_DefinedOperator ==
    (/\ returned.op = "resolve"
     /\ ResolvedTy.form = "type_apply"
     /\ ~Aborted(ResolvedRator)
     /\ ResolvedRator.it.form = "forall_type")
    => /\ unification = returned.before
       /\ Len(ResolvedRator.it.params) # Len(ArgTerms(ResolvedTy))
              => returned.res = Panic /\ last.tag = "<panic>"
       /\ Len(ResolvedRator.it.params) = Len(ArgTerms(ResolvedTy))
              => returned.res
                     = resolve(Clo(substitute(ResolvedRator.it.parts[1],
                                       ActualParams(ResolvedRator.it.params,
                                                    ArgTerms(ResolvedTy))),
                                   ResolvedRator.env),
                               returned.before)
       /\ (/\ ResolvedTy = TypeApply(VariableReference("List"), <<Undet(1)>>)
           /\ ResolvedEnv = t_env)
              => returned.res.it
                     = Mu("List", Node("enum", <<>>,
                           <<Undet(1), TypeApply(VariableReference("List"), <<Undet(1)>>)>>))

\* a defined type given no argument, on a store with determinations
C27_Witness ==
    /\ returned.op = "resolve"
    /\ returned.before # MtUnif
    /\ returned.args = <<TypeApply(VariableReference("F"), <<>>), MuEnv>>
    /\ returned.res = Panic

\* C28: resolve of a type application whose operator resolves to neither a
\* variable reference nor a forall_type returns the closure it was given,
\* without an error and without a change of the store.
C28_MalformedApplication ==
    (/\ returned.op = "resolve"
     /\ ResolvedTy.form = "type_apply"
     /\ ~Aborted(ResolvedRator)
     /\ ~IsVr(ResolvedRator.it)
     /\ ResolvedRator.it.form # "forall_type")
    => /\ returned.res = Clo(ResolvedTy, ResolvedEnv)
       /\ last.tag = "Ok"
       /\ unification = returned.before

\* the application of a name bound to Int, on a store with determinations
C28_Witness ==
    /\ returned.op = "resolve"
    /\ returned.before # MtUnif
    /\ returned.args = <<TypeApply(VariableReference("x"), <<IntTy>>), DefEnv>>
    /\ returned.res = Clo(TypeApply(VariableReference("x"), <<IntTy>>), DefEnv)

\* C29: canonicalizing a placeholder that has no entry in the store fails
\* with UnboundName of its id; canonicalizing one that has an entry gives
\* what canonicalizing the stored term in the stored environment gives.
C29_CanonicalizePlaceholder ==
    (returned.op = "canonicalize" /\ IsUndet(returned.args[1])) =>
        IF returned.args[1].id \notin DOMAIN returned.before
        THEN returned.res = CanonUnbound(returned.args[1].id)
        ELSE returned.res
                 = canonicalize(returned.before[returned.args[1].id].it,
                                returned.before[returned.args[1].id].env,
                                returned.before)

\* a placeholder determined to a name under the environment that protects
\* it, canonicalized in an environment that defines that name
C29_Witness ==
    /\ returned.op = "canonicalize"
    /\ returned.args = <<Undet(1), DefEnv>>
    /\ returned.before = Insert(MtUnif, 1, Clo(VariableReference("x"), MuEnv))
    /\ returned.res = CanonOk(VariableReference("x"))

\* what the environment of the latest walk_var call binds the name to
WalkedName == returned.args[1]
WalkedLhs == returned.args[3][WalkedName.nm]

\* C30: walk_var on a name bound to a reference to itself returns Ok, with
\* the store unchanged, exactly when the context element is the reference to
\* the same name, and Mismatch(context element, the reference) otherwise;
\* on a name bound to another type it returns what the walk of that type
\* against the same context element returns.
C30_WalkVar ==
    (returned.op = "walk_var" /\ WalkedName.nm \in DOMAIN returned.args[3]) =>
        IF WalkedLhs = WalkedName
        THEN /\ unification = returned.before
             /\ returned.res.ins = <<>>
             /\ returned.res.tag = "Ok" <=> returned.args[2] = WalkedName
             /\ returned.res.tag # "Ok" =>
                    /\ returned.res.tag = "Mismatch"
                    /\ returned.res.err = <<returned.args[2], WalkedName>>
        ELSE returned.res
                 = subtype_walk(WalkedLhs, returned.args[2], returned.args[3],
                                returned.before, gensym, WalkDepth)

\* the protected name against a base type, on a store with determinations
C30_Witness ==
    /\ returned.op = "walk_var"
    /\ returned.before # MtUnif
    /\ returned.args = <<VariableReference("x"), IntTy, MuEnv>>
    /\ returned.res.tag = "Mismatch"
    /\ returned.res.err = <<IntTy, VariableReference("x")>>

\* the dotdotdot_type node, the environment and the context elements of the
\* latest splice_ddd call, and what its drivers resolved to before the call
SplicedDdd == returned.args[1]
SplicedEnv == returned.args[2]
SplicedElts == returned.args[3]
SplicedDriver(k) ==
    resolve(Clo(VariableReference(SplicedDdd.params[k]), SplicedEnv), returned.before).it

\* the placeholder ids the store before the latest call mentions
IdsBefore ==
    DOMAIN returned.before
    \cup UNION {TermIds(returned.before[i].it) \cup EnvIds(returned.before[i].env) :
                  i \in DOMAIN returned.before}
    \cup EnvIds(SplicedEnv)

\* t is a tuple of n placeholders, pairwise distinct, none of them known
\* before the call, none with an entry in the store
FreshTuple(t, n) ==
    /\ t.form = "tuple"
    /\ Len(t.parts) = n
    /\ \A i \in 1..n :
           /\ IsUndet(t.parts[i])
           /\ t.parts[i].id \notin IdsBefore
           /\ t.parts[i].id \notin DOMAIN unification
           /\ \A j \in 1..n : i # j => t.parts[i].id # t.parts[j].id

\* C31: after a splice_ddd call that returns a splice for N context
\* elements, a driver that resolved to a placeholder p without an entry has
\* p bound in the store to a tuple of N fresh, pairwise distinct placeholders
\* without entries, that occur in no other entry, and position i's
\* environment maps the driver's name to the i-th of them.
C31_ForcedTuple ==
    (returned.op = "splice_ddd" /\ returned.res.tag = "Splice") =>
        \A k \in 1..Len(SplicedDdd.params) :
            IsUndet(SplicedDriver(k)) =>
                /\ SplicedDriver(k).id \in DOMAIN unification
                /\ FreshTuple(unification[SplicedDriver(k).id].it, Len(SplicedElts))
                /\ \A j \in DOMAIN unification \ {SplicedDriver(k).id} :
                       TermIds(unification[j].it)
                           \cap TermIds(unification[SplicedDriver(k).id].it) = {}
                /\ \A i \in 1..Len(SplicedElts) :
                       returned.res.envs[i][SplicedDdd.params[k]]
                           = unification[SplicedDriver(k).id].it.parts[i]

\* the names of the drivers of the latest splice_ddd call
DriverNames == {SplicedDdd.params[k] : k \in 1..Len(SplicedDdd.params)}

\* C32: a splice_ddd call that returns a splice for N context elements
\* returns exactly N environments, each with exactly the driver names as its
\* domain, position i mapping every driver that resolved to a tuple to that
\* tuple's i-th component, together with the body of the dotdotdot_type node
\* as it stands in the node.
C32_SpliceShape ==
    (returned.op = "splice_ddd" /\ returned.res.tag = "Splice") =>
        /\ Len(returned.res.envs) = Len(SplicedElts)
        /\ \A i \in 1..Len(SplicedElts) :
               /\ DOMAIN returned.res.envs[i] = DriverNames
               /\ \A k \in 1..Len(SplicedDdd.params) :
                      SplicedDriver(k).form = "tuple" =>
                          returned.res.envs[i][SplicedDdd.params[k]]
                              = SplicedDriver(k).parts[i]
        /\ returned.res.tys = <<SplicedDdd.parts[1]>>

\* a splice over two context elements with a driver that resolved to a
\* tuple of two different components
C32_Witness ==
    /\ returned.op = "splice_ddd"
    /\ returned.res.tag = "Splice"
    /\ Len(SplicedElts) = MaxArity
    /\ \E k \in 1..Len(SplicedDdd.params) :
           /\ SplicedDriver(k).form = "tuple"
           /\ SplicedDriver(k).parts[1] # SplicedDriver(k).parts[2]

\* the latest splice_ddd call had drivers whose resolution does not return
DriversDiverge ==
    \E k \in 1..Len(SplicedDdd.params) : SplicedDriver(k) \in {Overflow.it, Panic.it}

\* C33: a splice_ddd call on exactly one context element that is a
\* dotdotdot_type node returns "no splice" when that node's body is not a
\* dotdotdot_type node, whatever the drivers resolve to and with the store
\* and the placeholder counter as they were, and aborts with a fatal
\* internal error when the body is a dotdotdot_type node again; on one
\* context element of another form the drivers are spliced for one position.
C33_SingleElement ==
    (returned.op = "splice_ddd" /\ Len(SplicedElts) = 1) =>
        IF SplicedElts[1].form = "dotdotdot_type"
        THEN /\ returned.res.tag =
                    (IF SplicedElts[1].parts[1].form = "dotdotdot_type"
                     THEN "<panic>" ELSE "NoSplice")
             /\ unification = returned.before
             /\ gensym = MaxIds
             /\ returned.res.ins = <<>>
        ELSE /\ returned.res.tag # "NoSplice"
             /\ returned.res.expected_len = 1
             /\ DriversDiverge <=> returned.res.tag \in {"<stack overflow>", "<panic>"}
             /\ returned.res.tag = "Splice" => Len(returned.res.envs) = 1

\* "no splice" was returned for a node whose driver cannot be resolved
C33_Witness ==
    /\ returned.op = "splice_ddd"
    /\ returned.res.tag = "NoSplice"
    /\ DriversDiverge

\* the latest splice_ddd call went on to its loop over the drivers
ReachedLoop ==
    /\ returned.op = "splice_ddd"
    /\ ~(Len(SplicedElts) = 1 /\ SplicedElts[1].form = "dotdotdot_type")
    /\ ~DriversDiverge

\* driver k of the latest call is the first the loop does not pass, and it
\* resolved to something that is neither a tuple nor underdetermined
FailsToDestructure(k) ==
    /\ SplicedDriver(k).form # "tuple"
    /\ ~IsUndet(SplicedDriver(k))
    /\ \A j \in 1..(k - 1) : DriverFits(SplicedDriver(j), Len(SplicedElts))

\* C34: when a driver resolves to anything but a tuple or a placeholder
\* without an entry (the drivers before it passing), splice_ddd returns
\* UnableToDestructure with the resolved driver, and the subtype check of
\* the tuple of the same context elements against the tuple holding the
\* dotdotdot_type node returns UnableToDestructure.
C34_UnableToDestructure ==
    ReachedLoop =>
        \A k \in 1..Len(SplicedDdd.params) :
            FailsToDestructure(k) =>
                /\ returned.res.tag = "UnableToDestructure"
                /\ returned.res.tys = <<SplicedDriver(k)>>
                /\ must_subtype(Tuple(SplicedElts), Tuple(<<SplicedDdd>>), SplicedEnv,
                                returned.before, MaxIds).tag = "UnableToDestructure"

\* UnableToDestructure was returned for a driver bound to a base type
C34_Witness ==
    /\ ReachedLoop
    /\ returned.res.tag = "UnableToDestructure"
    /\ returned.res.tys = <<IntTy>>

\* C35: a splice_ddd call that returns LengthMismatch or
\* UnableToDestructure has inserted nothing: the store is the store before
\* the call.
C35_AtomicOnFailure ==
    (/\ returned.op = "splice_ddd"
     /\ returned.res.tag \in {"LengthMismatch", "UnableToDestructure"})
    => /\ unification = returned.before
       /\ returned.res.ins = <<>>

\* the canonicalizations of the two sides of the latest must_equal call
CanonLhs == canonicalize(returned.args[1], returned.args[3], returned.before)
CanonRhs == canonicalize(returned.args[2], returned.args[3], returned.before)

\* C36: must_equal returns Ok only when both sides canonicalize
\* successfully, to equal types; when the canonicalization of a side fails
\* the result is not Ok; when both succeed with different types the result
\* is Mismatch(lhs, rhs); the store is the store before the call.
C36_MustEqual ==
    returned.op = "must_equal" =>
        /\ returned.res.tag = "Ok" =>
               /\ CanonLhs.tag = "Ok"
               /\ CanonRhs.tag = "Ok"
               /\ CanonLhs.ty = CanonRhs.ty
        /\ (CanonLhs.tag = "UnboundName" \/ CanonRhs.tag = "UnboundName") =>
               returned.res.tag # "Ok"
        /\ (CanonLhs.tag = "Ok" /\ CanonRhs.tag = "Ok" /\ CanonLhs.ty # CanonRhs.ty) =>
               /\ returned.res.tag = "Mismatch"
               /\ returned.res.err = <<returned.args[1], returned.args[2]>>
        /\ unification = returned.before

====
